---- MODULE Spec2Model ----
(***************************************************************************)
(* Model of the deployment workflow (launch command, orchestrator,         *)
(* rollback, health verification) and of the streaming gateway (auth       *)
(* middleware, backend connector, stream handler, transmission error       *)
(* handler) of excel-mcp.                                                  *)
(*                                                                         *)
(* Calls that leave the process (remote runtime status, health probes,     *)
(* deployment history, identity provider, backend fetch) are environment   *)
(* steps: the typed result of the call is chosen nondeterministically, the *)
(* value returned by the simulated body in the source being one of the     *)
(* choices.  Control flow, guards, thrown errors and assignments are those *)
(* of the source.                                                          *)
(***************************************************************************)
EXTENDS Naturals, Integers, Sequences, FiniteSets, TLC

VARIABLES
    \* ---- launch command (src/src/cli/commands/launch.ts)
    lpc,            \* position of executeLaunch
    launchError,    \* message of the Error executeLaunch rejected with, <<>> if none
    \* ---- orchestrator (src/src/runtime/orchestrator.ts)
    opc,            \* position of orchestrateDeployment
    config,         \* the Config fields the workflow reads
    imageUri,       \* the artifact reference handed to orchestrateDeployment
    deployment,     \* the local variable `deployment` ({} before deployToRuntime returns)
    elapsed,        \* Date.now() - startTime inside waitForDeployment (0 outside it)
    thrown,         \* the value caught at orchestrator.ts:130 ({} if none)
    result,         \* the DeploymentResult the call resolved to ({} if none)
    \* ---- rollback (src/src/runtime/rollback.ts)
    rb,             \* activation record of rollbackDeployment
    history,        \* the deployment history log of the project (external store)
    calls,          \* how often each operation has been entered in this run
    \* ---- gateway request (src/src/runtime/http-handler.ts)
    gpc,            \* position of handleRequest / withErrorHandling
    req,            \* the IncomingRequest ({} before one arrives)
    gcalls,         \* how often each gateway operation has been entered
    backendReqs,    \* the requests issued to the backend, in order
    gthrown,        \* the value thrown inside the wrapped operation ({} if none)
    resp,           \* the StreamableResponse the handler resolved to ({} if none)
    \* ---- backend connector (MCPConnector, stream-handler.ts:224-343)
    conns,          \* every connection object created so far
    cache,          \* the Map `connections`: url -> index into conns, 0 if absent
    cproc,          \* the callers of connect: position, url, local `connection`, result
    \* ---- client-facing stream of a streaming response (stream-handler.ts:15-43)
    up,             \* upstream body: fragments of the document, delivered, state
    cqueue,         \* fragments enqueued on the client-facing stream, not yet read
    crecv,          \* what the client has read from the response body
    cstate,         \* state of the client-facing stream: open, closed or errored
    \* ---- chunk generator (StreamHandler.streamResponse, stream-handler.ts:51-98)
    sr,             \* position of the generator and the chunks it has yielded
    \* ---- build monitor (build/monitor.ts, kept in examples/README.md)
    bm,             \* activation record of monitorBuild
    \* ---- exported functions called directly
    lib             \* the last direct call: function, arguments, outcome

orchVars == <<lpc, launchError, opc, config, imageUri, deployment, elapsed, thrown, result,
              rb, history, calls>>

gwVars == <<gpc, req, gcalls, backendReqs, gthrown, resp, conns, cache, cproc,
            up, cqueue, crecv, cstate, sr>>

\* build monitor and direct calls of library functions
auxVars == <<bm, lib>>

vars == <<orchVars, gwVars, auxVars>>

-----------------------------------------------------------------------------
(* Values *)

Statuses == {"CREATING", "ACTIVE", "FAILED", "UPDATING"}

\* Deployment.status values that end waitForDeployment (part_007:112)
TerminalStatuses == {"ACTIVE", "FAILED"}

\* strings; "" stands for a falsy value (undefined or the empty string)
ImageUris == {"", "img-1"}
PoolIds   == {"", "pool-1"}
ClientIds == {"", "client-1"}

ProjectName == "proj"
Region      == "us-east-1"

\* generateDeploymentId(projectName): `${projectName}-${timestamp}-${random}`
generateDeploymentId(projectName) == "proj-ts-rnd"

\* `failed-${Date.now()}`  (orchestrator.ts:143)
FailedId == "failed-ts"

\* generateEndpointUrl / the url built by getDeploymentStatus
generateEndpointUrl(deploymentId, region) ==
    <<"https://", deploymentId, ".agentcore-runtime.", region, ".amazonaws.com">>

MkEndpoint(deploymentId, region) ==
    [url |-> generateEndpointUrl(deploymentId, region),
     protocol |-> "streamable-http", authRequired |-> TRUE]

\* waitForDeployment's default timeout and the pause between two polls
DefaultTimeoutMs == 300000
PollIntervalMs   == 5000

SeqsUpTo(S, n) == UNION {[1..k -> S] : k \in 0..n}

\* Error messages: sequences of strings, the pieces of the template literal
MsgInitFailed  == <<"Deployment failed during runtime initialization">>
MsgUnknown     == <<"Unknown deployment error">>
MsgTimeout(id) == <<"Deployment ", id, " timed out after ", "300000", "ms">>
MsgHealth(m)   == <<"Deployment health check failed: ", m>>
MsgTypeError   == <<"Cannot read properties of undefined">>
MsgLookup      == <<"history store unavailable">>

\* A thrown JavaScript value: an Error with a message, or some other value
Err(m)      == [isError |-> TRUE, message |-> m]
NonError    == [isError |-> FALSE, message |-> <<>>]

-----------------------------------------------------------------------------
(* Pure functions of the deployment workflow *)

\* Array.prototype.join(', ')
RECURSIVE Join(_)
Join(items) ==
    IF Len(items) = 0 THEN <<>>
    ELSE IF Len(items) = 1 THEN items
    ELSE <<Head(items), ", ">> \o Join(Tail(items))

\* mutant: the check stops at the first missing item
checkPrerequisites_Mut(image, pool, client) ==
    LET missing == IF image = "" THEN <<"Container image URI">>
                   ELSE IF pool = "" THEN <<"Cognito User Pool ID">>
                   ELSE IF client = "" THEN <<"Cognito Client ID">>
                   ELSE <<>>
    IN  [ready |-> Len(missing) = 0, missing |-> missing]

checkPrerequisites(image, pool, client) ==
    LET missing == (IF image = "" THEN <<"Container image URI">> ELSE <<>>)
                \o (IF pool = "" THEN <<"Cognito User Pool ID">> ELSE <<>>)
                \o (IF client = "" THEN <<"Cognito Client ID">> ELSE <<>>)
    IN  [ready |-> Len(missing) = 0, missing |-> missing]

MsgPrereq(missing) ==
    <<"Deployment prerequisites not met. Missing: ">> \o Join(missing)

\* createDeploymentResult: the error is attached only to a failure whose
\* message is truthy
createDeploymentResult(success, endpoint, authConfig, errorMessage) ==
    [success |-> success, endpoint |-> endpoint, authConfig |-> authConfig,
     error |-> IF ~success /\ errorMessage /= <<>>
               THEN {[code |-> "DEPLOYMENT_FAILED", message |-> errorMessage,
                      phase |-> "DEPLOYING"]}
               ELSE {}]

createSuccessResult(endpoint, authConfig) ==
    createDeploymentResult(TRUE, {endpoint}, {authConfig}, <<>>)

createFailureResult(errorMessage) ==
    createDeploymentResult(FALSE, {}, {}, errorMessage)

\* mutant: every status other than ACTIVE is taken for a failure
isDeploymentFailed_Mut(dep) == dep.status /= "ACTIVE"

isDeploymentFailed(dep) == dep.status = "FAILED"

\* performHealthCheck(deployment.id, deployment.endpoint?.url); `live` is the
\* outcome of the probe request
performHealthCheck(dep, live) ==
    IF dep.endpoint = {}
    THEN [healthy |-> FALSE, message |-> "No endpoint URL available for health check"]
    ELSE IF live THEN [healthy |-> TRUE, message |-> "Service is healthy"]
    ELSE [healthy |-> FALSE, message |-> "Health check failed"]

\* createEndpoint: {} stands for the thrown invalid-state Error
createEndpoint(dep, region) ==
    IF dep.status /= "ACTIVE" THEN {} ELSE {MkEndpoint(dep.id, region)}

\* mutant: the outcome of the accessibility probe is ignored
verifyDeployment_Mut(dep, region, live, acc) ==
    LET hs == performHealthCheck(dep, live)
        endpoint == IF dep.endpoint = {} THEN createEndpoint(dep, region)
                    ELSE dep.endpoint
    IN  IF ~hs.healthy
        THEN [threw |-> FALSE, healthy |-> FALSE, endpoint |-> {},
              healthStatus |-> hs, created |-> FALSE, accessChecked |-> FALSE]
        ELSE IF endpoint = {}
        THEN [threw |-> TRUE, healthy |-> FALSE, endpoint |-> {},
              healthStatus |-> hs, created |-> FALSE, accessChecked |-> FALSE]
        ELSE [threw |-> FALSE, healthy |-> hs.healthy, endpoint |-> endpoint,
              healthStatus |-> hs, created |-> (dep.endpoint = {}),
              accessChecked |-> TRUE]

\* verifyDeployment; `acc` is the outcome of the accessibility probe
verifyDeployment(dep, region, live, acc) ==
    LET hs == performHealthCheck(dep, live)
        endpoint == IF dep.endpoint = {} THEN createEndpoint(dep, region)
                    ELSE dep.endpoint
    IN  IF ~hs.healthy
        THEN [threw |-> FALSE, healthy |-> FALSE, endpoint |-> {},
              healthStatus |-> hs, created |-> FALSE, accessChecked |-> FALSE]
        ELSE IF endpoint = {}
        THEN [threw |-> TRUE, healthy |-> FALSE, endpoint |-> {},
              healthStatus |-> hs, created |-> FALSE, accessChecked |-> FALSE]
        ELSE [threw |-> FALSE, healthy |-> hs.healthy /\ acc, endpoint |-> endpoint,
              healthStatus |-> hs, created |-> (dep.endpoint = {}),
              accessChecked |-> TRUE]

-----------------------------------------------------------------------------
(* Deployment history and rollback (rollback.ts) *)

\* Bounds of the model
MaxHistory == 2

OldDeployments == {"old-1", "old-2"}

\* DeploymentHistory entries (DeploymentStatus.SUCCESS = 'success', FAILED = 'failed')
HistoryEntries ==
    [deploymentId : OldDeployments, imageUri : {"img-0"}, status : {"success", "failed"}]

Histories == SeqsUpTo(HistoryEntries, MaxHistory)

\* `${previousVersion.deploymentId}-restored`
RestoredId(id) == IF id = "old-1" THEN "old-1-restored" ELSE "old-2-restored"

\* getPreviousStableVersion: the results the lookup can give for the log `hist`:
\* null (what the body in the source returns), or an entry with status SUCCESS
\* (what the query sketched at rollback.ts:38-40 returns).  {} stands for null.
getPreviousStableVersion(projectName, hist) ==
    {{}} \cup {{hist[i]} : i \in {j \in 1..Len(hist) : hist[j].status = "success"}}

\* mutant: the cleaned list does not name the deployment
cleanupFailedDeployment_Mut(deploymentId) ==
    << <<"Associated runtime resources">> >>

\* cleanupFailedDeployment: the list returned when the cleanup steps complete
cleanupFailedDeployment(deploymentId) ==
    << <<"Deployment ", deploymentId>>, <<"Associated runtime resources">> >>

\* restorePreviousVersion
restorePreviousVersion(previousVersion) ==
    [id |-> RestoredId(previousVersion.deploymentId), status |-> "ACTIVE",
     imageUri |-> previousVersion.imageUri, endpoint |-> {}]

RollbackResult(success, message, cleaned, restored) ==
    [success |-> success, message |-> message, cleanedResources |-> cleaned,
     restoredVersion |-> restored]

RbIdle == [pc |-> "idle", caller |-> "none", dep |-> {}, cleaned |-> <<>>,
           prev |-> {}, restored |-> {}, ret |-> {}]

\* rollbackDeployment, from the call to its first await: the precondition guard
\* (rollback.ts:107-113) runs synchronously with the call
RbEnter(dep, caller) ==
    IF ~isDeploymentFailed(dep)
    THEN [pc |-> "returned", caller |-> caller, dep |-> {dep}, cleaned |-> <<>>,
          prev |-> {}, restored |-> {},
          ret |-> {RollbackResult(FALSE,
                      <<"Deployment has not failed, rollback not needed">>, <<>>, {})}]
    ELSE [pc |-> "cleanup", caller |-> caller, dep |-> {dep}, cleaned |-> <<>>,
          prev |-> {}, restored |-> {}, ret |-> {}]

TheDep(r) == CHOOSE d \in r.dep : TRUE

Bump(c, f) == [c EXCEPT ![f] = @ + 1]

\* rollback.ts:116  await cleanupFailedDeployment(failedDeployment.id)
RbCleanup ==
    /\ rb.pc = "cleanup"
    /\ rb' = [rb EXCEPT !.pc = "lookup",
                        !.cleaned = cleanupFailedDeployment(TheDep(rb).id)]
    /\ calls' = Bump(calls, "cleanup")
    /\ UNCHANGED <<lpc, launchError, opc, config, imageUri, deployment, elapsed,
                   thrown, result, history,
                   gwVars, auxVars>>

\* rollback.ts:119-128  lookup of the previous stable version
RbLookup ==
    /\ rb.pc = "lookup"
    /\ \E prev \in getPreviousStableVersion(ProjectName, history) :
          rb' = IF prev = {}
                THEN [rb EXCEPT !.pc = "returned",
                         !.ret = {RollbackResult(TRUE,
                            <<"Failed deployment cleaned up. No previous version to restore.">>,
                            rb.cleaned, {})}]
                ELSE [rb EXCEPT !.pc = "restore", !.prev = prev]
    /\ calls' = Bump(calls, "lookup")
    /\ UNCHANGED <<lpc, launchError, opc, config, imageUri, deployment, elapsed,
                   thrown, result, history,
                   gwVars, auxVars>>

\* rollback.ts:131-139  restoration succeeds
RbRestore ==
    /\ rb.pc = "restore"
    /\ LET restored == restorePreviousVersion(CHOOSE e \in rb.prev : TRUE)
       IN  rb' = [rb EXCEPT !.pc = "returned",
                     !.restored = {restored},
                     !.ret = {RollbackResult(TRUE,
                        <<"Successfully rolled back to previous stable version">>,
                        rb.cleaned, {restored.id})}]
    /\ calls' = Bump(calls, "restore")
    /\ UNCHANGED <<lpc, launchError, opc, config, imageUri, deployment, elapsed,
                   thrown, result, history,
                   gwVars, auxVars>>

\* rollback.ts:140-148  restoration throws and the handler reports it
RbRestoreFails ==
    /\ rb.pc = "restore"
    /\ rb' = [rb EXCEPT !.pc = "returned",
                 !.ret = {RollbackResult(FALSE,
                    <<"Cleanup completed but restoration failed: ", "redeploy failed">>,
                    rb.cleaned, {})}]
    /\ calls' = Bump(calls, "restore")
    /\ UNCHANGED <<lpc, launchError, opc, config, imageUri, deployment, elapsed,
                   thrown, result, history,
                   gwVars, auxVars>>

-----------------------------------------------------------------------------
(* orchestrateDeployment (orchestrator.ts:40-172) *)

MkDeployment(id, status, image, endpoint) ==
    [id |-> id, status |-> status, imageUri |-> image, endpoint |-> endpoint]

\* getDeploymentStatus(deploymentId): the Deployment records the remote runtime
\* can report for the id; the simulated body reports ACTIVE with an endpoint and
\* the placeholder image
getDeploymentStatus(deploymentId) ==
    {MkDeployment(deploymentId, st, "placeholder-image-uri", ep) :
        st \in Statuses, ep \in {{}, {MkEndpoint(deploymentId, Region)}}}

AuthConfigOf(cfg) == [cognitoUserPoolId |-> cfg.pool, cognitoClientId |-> cfg.client,
                      cognitoRegion |-> Region]

\* error instanceof Error ? error.message : 'Unknown deployment error'
ErrorMessage(e) == IF e.isError THEN e.message ELSE MsgUnknown

Cur == CHOOSE d \in deployment : TRUE
Caught == CHOOSE e \in thrown : TRUE

\* the synthesized record of the failure handler (orchestrator.ts:142-153)
FailedDeployment(image, cfg) == MkDeployment(FailedId, "FAILED", image, {})

\* orchestrator.ts:51-74 with deployToRuntime (part_007:59-89): configuration is
\* prepared, prerequisites are checked and the deployment is created
OrchDeploy ==
    /\ opc = "prepare"
    /\ config.hasAuth /\ config.hasServer
    /\ LET pre == checkPrerequisites(imageUri, config.pool, config.client)
       IN  IF ~pre.ready
           THEN /\ thrown' = {Err(MsgPrereq(pre.missing))}
                /\ opc' = "catch"
                /\ UNCHANGED deployment
           ELSE /\ deployment' = {MkDeployment(generateDeploymentId(ProjectName),
                                               "CREATING", imageUri, {})}
                /\ opc' = "wait"
                /\ UNCHANGED thrown
    /\ elapsed' = 0
    /\ calls' = Bump(calls, "deploy")
    /\ UNCHANGED <<lpc, launchError, config, imageUri, result, rb, history,
                   gwVars, auxVars>>

\* mutant: the status test of orchestrator.ts:84-86 is missing
OrchPoll_Mut ==
    /\ opc = "wait"
    /\ elapsed < DefaultTimeoutMs
    /\ \E d \in getDeploymentStatus(Cur.id) :
          IF d.status \in TerminalStatuses
          THEN /\ deployment' = {d}
               /\ UNCHANGED thrown /\ opc' = "verify"
               /\ elapsed' = 0
          ELSE /\ elapsed' = elapsed + PollIntervalMs
               /\ UNCHANGED <<deployment, thrown, opc>>
    /\ UNCHANGED <<lpc, launchError, config, imageUri, result, rb, history, calls,
                   gwVars, auxVars>>

\* one iteration of waitForDeployment's loop (part_007:109-118) and, when it
\* returns, the status test of orchestrator.ts:81-86
OrchPoll ==
    /\ opc = "wait"
    /\ elapsed < DefaultTimeoutMs
    /\ \E d \in getDeploymentStatus(Cur.id) :
          IF d.status \in TerminalStatuses
          THEN /\ deployment' = {d}
               /\ IF d.status = "FAILED"
                  THEN thrown' = {Err(MsgInitFailed)} /\ opc' = "catch"
                  ELSE UNCHANGED thrown /\ opc' = "verify"
               /\ elapsed' = 0
          ELSE /\ elapsed' = elapsed + PollIntervalMs
               /\ UNCHANGED <<deployment, thrown, opc>>
    /\ UNCHANGED <<lpc, launchError, config, imageUri, result, rb, history, calls,
                   gwVars, auxVars>>

\* mutant: the clock is restarted instead of the wait being abandoned
OrchWaitTimeout_Mut ==
    /\ opc = "wait"
    /\ ~(elapsed < DefaultTimeoutMs)
    /\ elapsed' = 0
    /\ UNCHANGED <<lpc, launchError, config, imageUri, deployment, result,
                   rb, history, calls, thrown, opc,
                   gwVars, auxVars>>

\* part_007:120  the loop ends without a terminal status
OrchWaitTimeout ==
    /\ opc = "wait"
    /\ ~(elapsed < DefaultTimeoutMs)
    /\ thrown' = {Err(MsgTimeout(Cur.id))}
    /\ opc' = "catch"
    /\ elapsed' = 0
    /\ UNCHANGED <<lpc, launchError, config, imageUri, deployment, result,
                   rb, history, calls,
                   gwVars, auxVars>>

\* mutant: a failed health check marks the deployment FAILED
OrchVerify_Mut ==
    /\ opc = "verify"
    /\ \E live \in BOOLEAN, acc \in BOOLEAN :
          LET v == verifyDeployment(Cur, Region, live, acc)
          IN  IF v.threw
              THEN /\ thrown' = {Err(<<"Cannot create endpoint for deployment in ",
                                       Cur.status, " state. ",
                                       "Deployment must be ACTIVE.">>)}
                   /\ opc' = "catch"
                   /\ UNCHANGED deployment
              ELSE IF ~v.healthy
              THEN /\ thrown' = {Err(MsgHealth(v.healthStatus.message))}
                   /\ opc' = "catch"
                   /\ deployment' = {[Cur EXCEPT !.status = "FAILED"]}
              ELSE /\ deployment' = {[Cur EXCEPT !.endpoint = v.endpoint]}
                   /\ opc' = "save"
                   /\ UNCHANGED thrown
    /\ calls' = Bump(calls, "verify")
    /\ UNCHANGED <<lpc, launchError, config, imageUri, elapsed, result, rb, history,
                   gwVars, auxVars>>

\* orchestrator.ts:93-104  health verification and endpoint update
OrchVerify ==
    /\ opc = "verify"
    /\ \E live \in BOOLEAN, acc \in BOOLEAN :
          LET v == verifyDeployment(Cur, Region, live, acc)
          IN  IF v.threw
              THEN /\ thrown' = {Err(<<"Cannot create endpoint for deployment in ",
                                       Cur.status, " state. ",
                                       "Deployment must be ACTIVE.">>)}
                   /\ opc' = "catch"
                   /\ UNCHANGED deployment
              ELSE IF ~v.healthy
              THEN /\ thrown' = {Err(MsgHealth(v.healthStatus.message))}
                   /\ opc' = "catch"
                   /\ UNCHANGED deployment
              ELSE /\ deployment' = {[Cur EXCEPT !.endpoint = v.endpoint]}
                   /\ opc' = "save"
                   /\ UNCHANGED thrown
    /\ calls' = Bump(calls, "verify")
    /\ UNCHANGED <<lpc, launchError, config, imageUri, elapsed, result, rb, history,
                   gwVars, auxVars>>

\* orchestrator.ts:107-128  saveDeploymentToHistory (rollback.ts:154-174 builds
\* the entry and logs it) and the success result
OrchSave ==
    /\ opc = "save"
    /\ result' = {createSuccessResult(CHOOSE e \in Cur.endpoint : TRUE,
                                      AuthConfigOf(config))}
    /\ opc' = "resolved"
    /\ calls' = Bump(calls, "save")
    /\ UNCHANGED <<lpc, launchError, config, imageUri, deployment, elapsed, thrown,
                   rb, history,
                   gwVars, auxVars>>

\* orchestrator.ts:130-158  the failure handler up to the rollback call
OrchCatch ==
    /\ opc = "catch"
    /\ config.hasAuth
    /\ rb' = RbEnter(FailedDeployment(imageUri, config), "orch")
    /\ calls' = Bump(calls, "rollback")
    /\ opc' = "rollback"
    /\ UNCHANGED <<lpc, launchError, config, imageUri, deployment, elapsed, thrown,
                   result, history,
                   gwVars, auxVars>>

\* mutant: a failed rollback replaces the reported error
OrchFinish_Mut ==
    /\ opc = "rollback"
    /\ rb.pc = "returned"
    /\ LET rr == CHOOSE x \in rb.ret : TRUE
       IN  result' = {createFailureResult(IF rr.success THEN ErrorMessage(Caught)
                                          ELSE rr.message)}
    /\ opc' = "resolved"
    /\ UNCHANGED <<lpc, launchError, config, imageUri, deployment, elapsed, thrown,
                   rb, history, calls,
                   gwVars, auxVars>>

\* orchestrator.ts:160-170  the failure result, once rollbackDeployment returned
OrchFinish ==
    /\ opc = "rollback"
    /\ rb.pc = "returned"
    /\ result' = {createFailureResult(ErrorMessage(Caught))}
    /\ opc' = "resolved"
    /\ UNCHANGED <<lpc, launchError, config, imageUri, deployment, elapsed, thrown,
                   rb, history, calls,
                   gwVars, auxVars>>

-----------------------------------------------------------------------------
(* Auth middleware (auth-middleware.ts) *)

MaxHeaderLen == 3

\* A header value is a string, modelled as a sequence of pieces: a scheme word,
\* a single space, or a run "t" of token characters.  Adjacent pieces that are
\* not separated by a space form one word ("Bearer" followed by "t" is the word
\* "Bearert").
HeaderPieces == {"Bearer", "Basic", " ", "t"}

HeaderValues == SeqsUpTo(HeaderPieces, MaxHeaderLen)

\* the keys under which a request can carry the header ("none": it carries none)
HeaderNames == {"none", "authorization", "Authorization", "AUTHORIZATION"}

\* String.prototype.split(' '): the pieces between consecutive spaces
RECURSIVE Split(_)
Split(v) ==
    IF \A i \in 1..Len(v) : v[i] /= " " THEN <<v>>
    ELSE LET k == CHOOSE i \in 1..Len(v) :
                     v[i] = " " /\ \A j \in 1..(i-1) : v[j] /= " "
         IN  <<SubSeq(v, 1, k-1)>> \o Split(SubSeq(v, k+1, Len(v)))

\* headers['authorization'] || headers['Authorization']; <<>> is the falsy
\* result (undefined or the empty string)
AuthHeaderOf(r) ==
    IF r.hdrName \in {"authorization", "Authorization"} THEN r.hdrValue ELSE <<>>

\* extractToken without the comparison of the scheme with 'Bearer'
extractToken_Mut(r) ==
    LET authHeader == AuthHeaderOf(r)
        parts == Split(authHeader)
    IN  IF authHeader = <<>> THEN {}
        ELSE IF Len(parts) /= 2 THEN {}
        ELSE {parts[2]}

\* extractToken: {} stands for null
extractToken(r) ==
    LET authHeader == AuthHeaderOf(r)
        parts == Split(authHeader)
    IN  IF authHeader = <<>> THEN {}
        ELSE IF Len(parts) /= 2 \/ parts[1] /= <<"Bearer">> THEN {}
        ELSE {parts[2]}

\* the token passes `if (!token)`: it is neither null nor the empty string
TokenPresent(r) == extractToken(r) /= {} /\ extractToken(r) /= {<<>>}

\* createUnauthorizedResponse
createUnauthorizedResponse(error) ==
    [status |-> 401,
     headers |-> {<<"Content-Type", "application/json">>,
                  <<"WWW-Authenticate", "Bearer">>},
     kind |-> "unauthorized",
     code |-> "AUTH_ERROR",
     details |-> error,
     suggestions |-> <<>>]

-----------------------------------------------------------------------------
(* Transmission error handler (orchestrator.ts:182-392) *)

\* A message is a sequence of words.  MarkersIn(w) is the set of marker strings
\* that the lower-cased word w contains; a word not listed contains none.
MarkersIn(w) ==
    CASE w \in {"network", "Network", "NetworkError"} -> {"network"}
      [] w \in {"connection", "Connection"}           -> {"connection"}
      [] w \in {"timeout", "Timeout"}                 -> {"timeout"}
      [] w \in {"ECONNREFUSED"}                       -> {"econnrefused"}
      [] w \in {"stream", "Stream", "upstream"}       -> {"stream"}
      [] w \in {"pipe", "EPIPE"}                      -> {"pipe"}
      [] w \in {"closed"}                             -> {"closed"}
      [] w \in {"unauthorized", "Unauthorized"}       -> {"unauthorized"}
      [] w \in {"forbidden", "Forbidden"}             -> {"forbidden"}
      [] w \in {"token", "Token", "tokens"}           -> {"token"}
      [] w \in {"mcp", "MCP"}                         -> {"mcp"}
      [] w \in {"server", "Server"}                   -> {"server"}
      [] OTHER                                        -> {}

\* message.toLowerCase().includes(marker)
Includes(msg, marker) == \E i \in 1..Len(msg) : marker \in MarkersIn(msg[i])

IncludesAny(msg, markers) == \E k \in markers : Includes(msg, k)

\* a thrown JavaScript value: an Error (its `message` is a string, possibly
\* empty), a string (its `message` property is undefined), or null/undefined
\* (reading any property of it throws a TypeError)
ThrownKinds == {"Error", "string", "nullish"}

Thrown(kind, message) == [kind |-> kind, message |-> message]

Categorized(category, code, message, details) ==
    [category |-> category, code |-> code, message |-> message, details |-> details]

\* mutant: the authentication markers are examined before the stream markers
categorizeError_Mut(error) ==
    IF error.kind /= "Error" THEN {}
    ELSE LET m == error.message
         IN  IF IncludesAny(m, {"network", "connection", "timeout", "econnrefused"})
             THEN {Categorized("RUNTIME_ERROR", "TRANSMISSION_001",
                               "Network connection error", m)}
             ELSE IF IncludesAny(m, {"unauthorized", "forbidden", "token"})
             THEN {Categorized("AUTH_ERROR", "TRANSMISSION_003",
                               "Authentication error during transmission", m)}
             ELSE IF IncludesAny(m, {"stream", "pipe", "closed"})
             THEN {Categorized("RUNTIME_ERROR", "TRANSMISSION_002",
                               "Stream transmission error", m)}
             ELSE IF IncludesAny(m, {"mcp", "server"})
             THEN {Categorized("RUNTIME_ERROR", "TRANSMISSION_004",
                               "MCP server error", m)}
             ELSE {Categorized("RUNTIME_ERROR", "TRANSMISSION_000",
                               "Transmission error", m)}

\* categorizeError: {} stands for the TypeError raised by
\* error.message.toLowerCase() when `message` is not a string
categorizeError(error) ==
    IF error.kind /= "Error" THEN {}
    ELSE LET m == error.message
         IN  IF IncludesAny(m, {"network", "connection", "timeout", "econnrefused"})
             THEN {Categorized("RUNTIME_ERROR", "TRANSMISSION_001",
                               "Network connection error", m)}
             ELSE IF IncludesAny(m, {"stream", "pipe", "closed"})
             THEN {Categorized("RUNTIME_ERROR", "TRANSMISSION_002",
                               "Stream transmission error", m)}
             ELSE IF IncludesAny(m, {"unauthorized", "forbidden", "token"})
             THEN {Categorized("AUTH_ERROR", "TRANSMISSION_003",
                               "Authentication error during transmission", m)}
             ELSE IF IncludesAny(m, {"mcp", "server"})
             THEN {Categorized("RUNTIME_ERROR", "TRANSMISSION_004",
                               "MCP server error", m)}
             ELSE {Categorized("RUNTIME_ERROR", "TRANSMISSION_000",
                               "Transmission error", m)}

\* mutant: a network error is answered like any other runtime error
getStatusCode_Mut(error) ==
    CASE error.category = "AUTH_ERROR"   -> 401
      [] error.category = "CONFIG_ERROR" -> 400
      [] error.category = "RUNTIME_ERROR" ->
            IF error.code = "TRANSMISSION_001" THEN 500
            ELSE IF error.code = "TRANSMISSION_002" THEN 500
            ELSE 500
      [] OTHER -> 500

getStatusCode(error) ==
    CASE error.category = "AUTH_ERROR"   -> 401
      [] error.category = "CONFIG_ERROR" -> 400
      [] error.category = "RUNTIME_ERROR" ->
            IF error.code = "TRANSMISSION_001" THEN 503
            ELSE IF error.code = "TRANSMISSION_002" THEN 500
            ELSE 500
      [] OTHER -> 500

getSuggestions(error) ==
    CASE error.code = "TRANSMISSION_001" ->
            <<"Check if the MCP server is running and accessible",
              "Verify network connectivity", "Check firewall settings",
              "Retry the request after a short delay">>
      [] error.code = "TRANSMISSION_002" ->
            <<"The connection was interrupted during transmission",
              "Retry the request", "Check for network stability issues">>
      [] error.code = "TRANSMISSION_003" ->
            <<"Verify your authentication token is valid",
              "Obtain a new token if the current one has expired",
              "Check that you have permission to access this resource">>
      [] error.code = "TRANSMISSION_004" ->
            <<"The MCP server encountered an error",
              "Check MCP server logs for details",
              "Verify the request format is correct",
              "Contact the server administrator if the problem persists">>
      [] OTHER ->
            <<"An unexpected error occurred during transmission",
              "Retry the request", "Contact support if the problem persists">>

createErrorResponse(error) ==
    [status |-> getStatusCode(error),
     headers |-> {<<"Content-Type", "application/json">>,
                  <<"Cache-Control", "no-cache">>},
     kind |-> "error",
     code |-> error.code,
     details |-> error.details,
     suggestions |-> getSuggestions(error)]

\* withErrorHandling's catch block (orchestrator.ts:387-390): the response it
\* returns, or {} when categorizeError throws and the promise rejects
HandleThrown(error) ==
    LET categorized == categorizeError(error)
    IN  IF categorized = {} THEN {}
        ELSE {createErrorResponse(CHOOSE c \in categorized : TRUE)}

-----------------------------------------------------------------------------
(* executeLaunch (launch.ts:48-240) *)

\* what the build step (launch.ts:88-157) can end with: the image is built, the
\* monitor reports failure, the result has no image URI, or a build call throws
BuildOutcomes == {"ok", "failed", "noimage", "error"}

BuildErrorOf(outcome) ==
    IF outcome = "failed" THEN "Container build failed"
    ELSE IF outcome = "noimage" THEN "Build succeeded but image URI not available"
    ELSE "build service error"

\* launch.ts:57-72  loadConfig
LaunchLoad ==
    /\ lpc = "start"
    /\ \/ \E pool \in PoolIds, client \in ClientIds :
             /\ config' = [config EXCEPT !.pool = pool, !.client = client]
             /\ lpc' = "build"
             /\ UNCHANGED launchError
       \/ /\ lpc' = "failed"
          /\ launchError' = <<"Configuration not found. Please run \"agentcore configure\" first.">>
          /\ UNCHANGED config
    /\ UNCHANGED <<opc, imageUri, deployment, elapsed, thrown, result, rb, history, calls,
                   gwVars, auxVars>>

\* mutant: a failed build does not stop the launch
LaunchBuild_Mut ==
    /\ lpc = "build"
    /\ \E outcome \in BuildOutcomes :
          /\ imageUri' = IF outcome = "ok" THEN "img-1" ELSE ""
          /\ lpc' = "auth"
          /\ UNCHANGED launchError
    /\ calls' = Bump(calls, "build")
    /\ UNCHANGED <<opc, config, deployment, elapsed, thrown, result, rb, history,
                   gwVars, auxVars>>

\* launch.ts:88-157  build step: every failure is rethrown as `Build failed: ...`
LaunchBuild ==
    /\ lpc = "build"
    /\ \E outcome \in BuildOutcomes :
          IF outcome = "ok"
          THEN /\ imageUri' = "img-1"
               /\ lpc' = "auth"
               /\ UNCHANGED launchError
          ELSE /\ launchError' = <<"Build failed: ", BuildErrorOf(outcome)>>
               /\ lpc' = "failed"
               /\ UNCHANGED imageUri
    /\ calls' = Bump(calls, "build")
    /\ UNCHANGED <<opc, config, deployment, elapsed, thrown, result, rb, history,
                   gwVars, auxVars>>

\* mutant: a failed identity setup does not stop the launch
LaunchAuth_Mut ==
    /\ lpc = "auth"
    /\ IF config.pool /= "" /\ config.client /= ""
       THEN /\ lpc' = "deploy"
            /\ UNCHANGED <<config, launchError, calls>>
       ELSE \/ /\ config' = [config EXCEPT !.pool = "pool-new", !.client = "client-new"]
               /\ lpc' = "deploy"
               /\ calls' = Bump(calls, "authSetup")
               /\ UNCHANGED launchError
            \/ /\ lpc' = "deploy"
               /\ calls' = Bump(calls, "authSetup")
               /\ UNCHANGED <<config, launchError>>
    /\ UNCHANGED <<opc, imageUri, deployment, elapsed, thrown, result, rb, history,
                   gwVars, auxVars>>

\* launch.ts:163-202  reuse the configured identity or provision a new one
LaunchAuth ==
    /\ lpc = "auth"
    /\ IF config.pool /= "" /\ config.client /= ""
       THEN /\ lpc' = "deploy"
            /\ UNCHANGED <<config, launchError, calls>>
       ELSE \/ /\ config' = [config EXCEPT !.pool = "pool-new", !.client = "client-new"]
               /\ lpc' = "deploy"
               /\ calls' = Bump(calls, "authSetup")
               /\ UNCHANGED launchError
            \/ /\ launchError' = <<"Failed to set up authentication: ", "cognito error">>
               /\ lpc' = "failed"
               /\ calls' = Bump(calls, "authSetup")
               /\ UNCHANGED config
    /\ UNCHANGED <<opc, imageUri, deployment, elapsed, thrown, result, rb, history,
                   gwVars, auxVars>>

\* launch.ts:210-214  orchestrateDeployment is called
LaunchCallOrchestrate ==
    /\ lpc = "deploy"
    /\ opc = "idle"
    /\ opc' = "prepare"
    /\ lpc' = "await"
    /\ UNCHANGED <<launchError, config, imageUri, deployment, elapsed, thrown, result,
                   rb, history, calls,
                   gwVars, auxVars>>

\* launch.ts:216-239  the result of orchestrateDeployment is inspected
LaunchFinish ==
    /\ lpc = "await"
    /\ opc = "resolved"
    /\ LET r == CHOOSE x \in result : TRUE
       IN  IF r.success
           THEN lpc' = "done" /\ UNCHANGED launchError
           ELSE /\ lpc' = "failed"
                /\ launchError' = IF r.error /= {}
                                  THEN (CHOOSE e \in r.error : TRUE).message
                                  ELSE <<"Deployment failed for unknown reason">>
    /\ UNCHANGED <<opc, config, imageUri, deployment, elapsed, thrown, result, rb,
                   history, calls,
                   gwVars, auxVars>>

\* a caller other than the launch command invokes orchestrateDeployment
DirectOrchestrate ==
    /\ lpc = "start"
    /\ \E image \in ImageUris, pool \in PoolIds, client \in ClientIds :
          /\ imageUri' = image
          /\ config' = [config EXCEPT !.pool = pool, !.client = client]
    /\ lpc' = "direct"
    /\ opc' = "prepare"
    /\ UNCHANGED <<launchError, deployment, elapsed, thrown, result, rb, history, calls,
                   gwVars, auxVars>>

\* a caller invokes rollbackDeployment on a Deployment of any status
DirectRollback ==
    /\ lpc = "start"
    /\ \E st \in Statuses, ep \in {{}, {MkEndpoint("dep-x", Region)}} :
          rb' = RbEnter(MkDeployment("dep-x", st, "img-1", ep), "direct")
    /\ calls' = Bump(calls, "rollback")
    /\ lpc' = "direct"
    /\ UNCHANGED <<launchError, opc, config, imageUri, deployment, elapsed, thrown,
                   result, history,
                   gwVars, auxVars>>

-----------------------------------------------------------------------------
(* Gateway values (types/http.ts, http-handler.ts) *)

\* the JSON-RPC envelopes a request can carry; "" stands for `undefined`
Envelopes == {"tools/list#1", "tools/call#2"}

NoEnvelope == ""

\* request.body: an object, a string (a JSON text in compact or spaced layout,
\* or a text that is not JSON), or undefined
Body(kind, env, form) == [kind |-> kind, env |-> env, form |-> form]

Bodies ==
    {Body("object", e, "none") : e \in Envelopes}
    \cup {Body("string", e, f) : e \in Envelopes, f \in {"compact", "spaced"}}
    \cup {Body("string", NoEnvelope, f) : f \in {"truncated", "badtoken"}}
    \cup {Body("undefined", NoEnvelope, "none")}

\* IncomingRequest: the key and value of its authorization header, and its body
Requests ==
    {r \in [hdrName : HeaderNames, hdrValue : HeaderValues, body : Bodies] :
        r.hdrName = "none" => r.hdrValue = <<>>}

MsgBadToken == <<"Unexpected", "token", "}", "in", "JSON", "at", "position", "1">>

MsgTruncated == <<"Unexpected", "end", "of", "JSON", "input">>

\* JSON.parse: the value of a JSON text whatever its layout, a SyntaxError otherwise
JSONparse(body) ==
    IF body.form \in {"compact", "spaced"}
    THEN [threw |-> FALSE, message |-> <<>>, value |-> body.env]
    ELSE [threw |-> TRUE,
          message |-> IF body.form = "badtoken" THEN MsgBadToken ELSE MsgTruncated,
          value |-> NoEnvelope]

\* JSON.stringify: the compact text of a value; {} is `undefined`
JSONstringify(value) ==
    IF value = NoEnvelope THEN {} ELSE {[env |-> value, form |-> "compact"]}

parseMCPRequest(body) ==
    IF body.kind = "string" THEN JSONparse(body)
    ELSE [threw |-> FALSE, message |-> <<>>, value |-> body.env]

\* HttpHandlerConfig.mcpServerUrl and the URLs a connector can be asked for
McpServerUrl == "http://mcp-a"

Urls == {"http://mcp-a", "http://mcp-b"}

\* the request forwardRequest hands to fetch
BackendRequest(url, request) ==
    [url |-> url, method |-> "POST",
     headers |-> {<<"Content-Type", "application/json">>,
                  <<"Accept", "application/json">>},
     body |-> JSONstringify(request)]

\* the statuses the backend answers with, and their reason phrases
BackendStatuses == {200, 202, 204, 401, 500, 504}

StatusStr(st) ==
    CASE st = 200 -> "200" [] st = 202 -> "202" [] st = 204 -> "204"
      [] st = 401 -> "401" [] st = 500 -> "500" [] st = 504 -> "504"

StatusText(st) ==
    CASE st = 200 -> <<"OK">>
      [] st = 202 -> <<"Accepted">>
      [] st = 204 -> <<"No", "Content">>
      [] st = 401 -> <<"Unauthorized">>
      [] st = 500 -> <<"Internal", "Server", "Error">>
      [] st = 504 -> <<"Gateway", "Timeout">>

\* mutant: only server errors count as failures
Ok_Mut(st) == st >= 200 /\ st <= 499

\* Response.ok
Ok(st) == st >= 200 /\ st <= 299

\* Response.body is null for a response with a null-body status
BodyIsNull(st) == st \in {204, 205, 304}

MsgMcpError(st) ==
    <<"MCP", "server", "returned", "error:", StatusStr(st)>> \o StatusText(st)

MsgFetchFailed == <<"fetch", "failed">>

MsgBodyNull == <<"Response", "body", "is", "null">>

MsgNoHeader == <<"Missing", "or", "invalid", "Authorization", "header">>

\* the messages of the errors the identity provider rejects a token with
IdpErrors == {<<"Access", "Token", "has", "expired">>, <<>>}

\* error.message || 'Token validation failed'
ValidationError(message) ==
    IF message = <<>> THEN <<"Token", "validation", "failed">> ELSE message

\* the values an operation handed to withErrorHandling can throw
SampleMessages ==
    {MsgFetchFailed, MsgBadToken, MsgBodyNull, MsgMcpError(500), <<>>,
     <<"connection", "closed", "by", "server">>, <<"write", "EPIPE">>}

ThrownValues ==
    {Thrown("Error", m) : m \in SampleMessages}
    \cup {Thrown("string", <<>>), Thrown("nullish", <<>>)}

\* the StreamableResponse built by createStreamingResponse
createStreamingResponse(st) ==
    [status |-> st,
     headers |-> {<<"Content-Type", "application/json">>,
                  <<"Transfer-Encoding", "chunked">>,
                  <<"Cache-Control", "no-cache">>,
                  <<"Connection", "keep-alive">>},
     kind |-> "stream",
     code |-> "",
     details |-> <<>>,
     suggestions |-> <<>>]

-----------------------------------------------------------------------------
(* MCPConnector (stream-handler.ts:224-343) *)

MaxCallers == 2

MaxConnects == 2

Callers == 1..MaxCallers

\* the object literal built by createConnection
createConnection(serverUrl) == [url |-> serverUrl, connected |-> TRUE]

\* mutant: a cached connection is reused whether or not it is connected
CacheHit_Mut(serverUrl) == cache[serverUrl] /= 0

\* connect, lines 238-241: a cached connection exists and is connected
CacheHit(serverUrl) ==
    cache[serverUrl] /= 0 /\ conns[cache[serverUrl]].connected

\* a caller of connect or disconnect: the operation, its position, its
\* argument, its local `connection`, the connection connect returned, and the
\* number of calls made
CallerIdle == [op |-> "none", pc |-> "idle", url |-> "", local |-> 0, got |-> 0,
               n |-> 0]

\* connect up to its `await`: the cache check and, on a miss, the synchronous
\* body of createConnection
ConnBegin(p) ==
    /\ cproc[p].pc \in {"idle", "returned"}
    /\ cproc[p].n < MaxConnects
    /\ \E serverUrl \in Urls :
          IF CacheHit(serverUrl)
          THEN /\ cproc' = [cproc EXCEPT ![p] =
                     [op |-> "connect", pc |-> "returned", url |-> serverUrl,
                      local |-> 0, got |-> cache[serverUrl], n |-> @.n + 1]]
               /\ conns' = conns
          ELSE /\ conns' = Append(conns, createConnection(serverUrl))
               /\ cproc' = [cproc EXCEPT ![p] =
                     [op |-> "connect", pc |-> "creating", url |-> serverUrl,
                      local |-> Len(conns) + 1, got |-> 0, n |-> @.n + 1]]
    /\ UNCHANGED <<cache, gpc, req, gcalls, backendReqs, gthrown, resp,
                   up, cqueue, crecv, cstate, sr, orchVars, auxVars>>

\* connect after its `await`: connections.set(serverUrl, connection); return
ConnStore(p) ==
    /\ cproc[p].pc = "creating"
    /\ cache' = [cache EXCEPT ![cproc[p].url] = cproc[p].local]
    /\ cproc' = [cproc EXCEPT ![p].pc = "returned", ![p].got = cproc[p].local]
    /\ UNCHANGED <<conns, gpc, req, gcalls, backendReqs, gthrown, resp,
                   up, cqueue, crecv, cstate, sr, orchVars, auxVars>>

\* connection.close() (lines 283-285), called by a holder of the connection
ConnClose ==
    /\ \E i \in 1..Len(conns) :
          /\ conns[i].connected
          /\ conns' = [conns EXCEPT ![i].connected = FALSE]
    /\ UNCHANGED <<cache, cproc, gpc, req, gcalls, backendReqs, gthrown, resp,
                   up, cqueue, crecv, cstate, sr, orchVars, auxVars>>

\* disconnect up to its `await`: the lookup and the synchronous body of close
\* (lines 327-329)
DiscBegin(p) ==
    /\ cproc[p].pc \in {"idle", "returned"}
    /\ cproc[p].n < MaxConnects
    /\ \E serverUrl \in Urls :
          IF cache[serverUrl] = 0
          THEN /\ cproc' = [cproc EXCEPT ![p] =
                     [op |-> "disconnect", pc |-> "returned", url |-> serverUrl,
                      local |-> 0, got |-> 0, n |-> @.n + 1]]
               /\ conns' = conns
          ELSE /\ conns' = [conns EXCEPT ![cache[serverUrl]].connected = FALSE]
               /\ cproc' = [cproc EXCEPT ![p] =
                     [op |-> "disconnect", pc |-> "closing", url |-> serverUrl,
                      local |-> cache[serverUrl], got |-> 0, n |-> @.n + 1]]
    /\ UNCHANGED <<cache, gpc, req, gcalls, backendReqs, gthrown, resp,
                   up, cqueue, crecv, cstate, sr, orchVars, auxVars>>

\* disconnect after its `await`: connections.delete(serverUrl) (line 330)
DiscFinish(p) ==
    /\ cproc[p].pc = "closing"
    /\ cache' = [cache EXCEPT ![cproc[p].url] = 0]
    /\ cproc' = [cproc EXCEPT ![p].pc = "returned"]
    /\ UNCHANGED <<conns, gpc, req, gcalls, backendReqs, gthrown, resp,
                   up, cqueue, crecv, cstate, sr, orchVars, auxVars>>

-----------------------------------------------------------------------------
(* StreamableHttpHandler.handleRequest (http-handler.ts:38-69) *)

MaxFrags == 2

TheReq == CHOOSE r \in req : TRUE

TheThrown == CHOOSE v \in gthrown : TRUE

NoGwCalls == [n \in {"idp", "forward", "create"} |-> 0]

GwBump(n) == [gcalls EXCEPT ![n] = @ + 1]

\* the backend's response: its status (0: none yet) and the state of its body
UpNone == [status |-> 0, state |-> "none", total |-> 0, delivered |-> 0,
           reason |-> Thrown("Error", <<>>)]

\* what a client reads from a response body: a raw fragment of the backend's
\* document, or one line holding a serialized StreamChunk
Item(kind, type, frag, message) ==
    [kind |-> kind, type |-> type, frag |-> frag, message |-> message]

\* a request arrives
GwReceive ==
    /\ gpc = "idle"
    /\ \E r \in Requests : req' = {r}
    /\ gpc' = "auth"
    /\ UNCHANGED <<gcalls, backendReqs, gthrown, resp, conns, cache, cproc,
                   up, cqueue, crecv, cstate, sr, orchVars, auxVars>>

\* validateRequest up to the identity-provider call, and lines 47-51
GwAuth ==
    /\ gpc = "auth"
    /\ IF ~TokenPresent(TheReq)
       THEN /\ resp' = {createUnauthorizedResponse(MsgNoHeader)}
            /\ gpc' = "done"
            /\ gcalls' = gcalls
       ELSE /\ gcalls' = GwBump("idp")
            /\ gpc' = "idp"
            /\ resp' = resp
    /\ UNCHANGED <<req, backendReqs, gthrown, conns, cache, cproc,
                   up, cqueue, crecv, cstate, sr, orchVars, auxVars>>

\* validateToken: the identity provider accepts the token
GwIdpAccepts ==
    /\ gpc = "idp"
    /\ gpc' = "forward"
    /\ UNCHANGED <<req, gcalls, backendReqs, gthrown, resp, conns, cache, cproc,
                   up, cqueue, crecv, cstate, sr, orchVars, auxVars>>

\* validateToken: the identity provider rejects the token
GwIdpRejects ==
    /\ gpc = "idp"
    /\ \E m \in IdpErrors :
          resp' = {createUnauthorizedResponse(ValidationError(m))}
    /\ gpc' = "done"
    /\ UNCHANGED <<req, gcalls, backendReqs, gthrown, conns, cache, cproc,
                   up, cqueue, crecv, cstate, sr, orchVars, auxVars>>

\* parseMCPRequest, then forwardRequest up to its fetch call
GwForward ==
    /\ gpc = "forward"
    /\ LET parsed == parseMCPRequest(TheReq.body)
       IN  IF parsed.threw
           THEN /\ gthrown' = {Thrown("Error", parsed.message)}
                /\ gpc' = "caught"
                /\ UNCHANGED <<gcalls, backendReqs, conns, cache>>
           ELSE /\ IF CacheHit(McpServerUrl)
                   THEN /\ UNCHANGED <<conns, cache>>
                        /\ gcalls' = GwBump("forward")
                   ELSE /\ conns' = Append(conns, createConnection(McpServerUrl))
                        /\ cache' = [cache EXCEPT ![McpServerUrl] = Len(conns) + 1]
                        /\ gcalls' = [gcalls EXCEPT !["forward"] = @ + 1,
                                                    !["create"] = @ + 1]
                /\ backendReqs' = Append(backendReqs,
                                         BackendRequest(McpServerUrl, parsed.value))
                /\ gpc' = "fetching"
                /\ gthrown' = gthrown
    /\ UNCHANGED <<req, resp, cproc, up, cqueue, crecv, cstate, sr, orchVars, auxVars>>

\* fetch rejects: the backend cannot be reached
GwFetchFails ==
    /\ gpc = "fetching"
    /\ gthrown' = {Thrown("Error", MsgFetchFailed)}
    /\ gpc' = "caught"
    /\ UNCHANGED <<req, gcalls, backendReqs, resp, conns, cache, cproc,
                   up, cqueue, crecv, cstate, sr, orchVars, auxVars>>

\* fetch resolves: forwardRequest lines 313-319, then createStreamingResponse
GwFetchReplies ==
    /\ gpc = "fetching"
    /\ \E st \in BackendStatuses, total \in 0..MaxFrags :
          IF ~Ok(st)
          THEN /\ gthrown' = {Thrown("Error", MsgMcpError(st))}
               /\ gpc' = "caught"
               /\ up' = [UpNone EXCEPT !.status = st]
               /\ UNCHANGED <<resp, cstate>>
          ELSE IF BodyIsNull(st)
          THEN /\ gthrown' = {Thrown("Error", MsgBodyNull)}
               /\ gpc' = "caught"
               /\ up' = [UpNone EXCEPT !.status = st]
               /\ UNCHANGED <<resp, cstate>>
          ELSE /\ resp' = {createStreamingResponse(st)}
               /\ up' = [UpNone EXCEPT !.status = st, !.state = "open",
                                       !.total = total]
               /\ cstate' = "open"
               /\ gpc' = "done"
               /\ gthrown' = gthrown
    /\ UNCHANGED <<req, gcalls, backendReqs, conns, cache, cproc,
                   cqueue, crecv, sr, orchVars, auxVars>>

\* withErrorHandling is handed an operation that throws
WrapThrows ==
    /\ gpc = "idle"
    /\ \E v \in ThrownValues : gthrown' = {v}
    /\ gpc' = "caught"
    /\ UNCHANGED <<req, gcalls, backendReqs, resp, conns, cache, cproc,
                   up, cqueue, crecv, cstate, sr, orchVars, auxVars>>

\* the catch block of withErrorHandling
GwCaught ==
    /\ gpc = "caught"
    /\ LET handled == HandleThrown(TheThrown)
       IN  IF handled = {}
           THEN gpc' = "rejected" /\ resp' = resp
           ELSE gpc' = "done" /\ resp' = handled
    /\ UNCHANGED <<req, gcalls, backendReqs, gthrown, conns, cache, cproc,
                   up, cqueue, crecv, cstate, sr, orchVars, auxVars>>

-----------------------------------------------------------------------------
(* The body of a streaming response: mcpResponse.body piped through an identity *)
(* TransformStream (stream-handler.ts:23-41)                                   *)

\* chunks the transform holds while the client does not read
TransformCapacity == 1

\* the values an upstream body can error with
StreamErrors == {Thrown("Error", <<"terminated">>), Thrown("Error", <<>>),
                 Thrown("string", <<>>), Thrown("nullish", <<>>)}

\* pipeTo moves the next fragment of the backend's body into the transform
PipeData ==
    /\ up.state = "open"
    /\ up.delivered < up.total
    /\ Len(cqueue) < TransformCapacity
    /\ up' = [up EXCEPT !.delivered = @ + 1]
    /\ cqueue' = Append(cqueue, Item("raw", "", up.delivered + 1, <<>>))
    /\ UNCHANGED <<gpc, req, gcalls, backendReqs, gthrown, resp, conns, cache, cproc,
                   crecv, cstate, sr, orchVars, auxVars>>

\* the backend's body ends: pipeTo closes the transform
PipeEnd ==
    /\ up.state = "open"
    /\ up.delivered = up.total
    /\ up' = [up EXCEPT !.state = "ended"]
    /\ cstate' = "closed"
    /\ UNCHANGED <<gpc, req, gcalls, backendReqs, gthrown, resp, conns, cache, cproc,
                   cqueue, crecv, sr, orchVars, auxVars>>

\* the backend's body errors: pipeTo aborts the transform, which errors the
\* client-facing stream and discards what it holds
PipeError ==
    /\ up.state = "open"
    /\ \E reason \in StreamErrors :
          up' = [up EXCEPT !.state = "errored", !.reason = reason]
    /\ cstate' = "errored"
    /\ cqueue' = <<>>
    /\ UNCHANGED <<gpc, req, gcalls, backendReqs, gthrown, resp, conns, cache, cproc,
                   crecv, sr, orchVars, auxVars>>

\* the client reads the next item of the response body
ClientRead ==
    /\ cqueue /= <<>>
    /\ cstate /= "errored"
    /\ crecv' = Append(crecv, Head(cqueue))
    /\ cqueue' = Tail(cqueue)
    /\ UNCHANGED <<gpc, req, gcalls, backendReqs, gthrown, resp, conns, cache, cproc,
                   up, cstate, sr, orchVars, auxVars>>

-----------------------------------------------------------------------------
(* StreamHandler.streamResponse and createChunkedBody (stream-handler.ts) *)

SrIdle == [pc |-> "idle", chunks |-> <<>>, taken |-> 0]

MsgNoBody == <<"No", "response", "body">>

TerminalTypes == {"end", "error"}

\* the consumer has taken every chunk yielded so far and asks for the next one
SrPulled == sr.taken = Len(sr.chunks)

Yield(chunk) == [sr EXCEPT !.chunks = Append(@, chunk)]

\* streamResponse is called and runs to its first yield or read (lines 55-64);
\* createChunkedBody opens the client-facing stream over it
SrBegin ==
    /\ sr.pc = "idle"
    /\ gpc = "idle"
    /\ cstate = "none"
    /\ \E hasBody \in BOOLEAN, total \in 0..MaxFrags :
          IF ~hasBody
          THEN /\ sr' = [Yield(Item("line", "error", 0, MsgNoBody)) EXCEPT
                             !.pc = "finished"]
               /\ up' = up
          ELSE /\ sr' = [sr EXCEPT !.pc = "reading"]
               /\ up' = [UpNone EXCEPT !.status = 200, !.state = "open",
                                       !.total = total]
    /\ cstate' = "open"
    /\ UNCHANGED <<gpc, req, gcalls, backendReqs, gthrown, resp, conns, cache, cproc,
                   cqueue, crecv, orchVars, auxVars>>

\* reader.read() resolves with a fragment: a data chunk is yielded (lines 80-87)
SrReadData ==
    /\ sr.pc = "reading"
    /\ SrPulled
    /\ up.state = "open"
    /\ up.delivered < up.total
    /\ up' = [up EXCEPT !.delivered = @ + 1]
    /\ sr' = Yield(Item("line", "data", up.delivered + 1, <<>>))
    /\ UNCHANGED <<gpc, req, gcalls, backendReqs, gthrown, resp, conns, cache, cproc,
                   cqueue, crecv, cstate, orchVars, auxVars>>

\* reader.read() resolves with done: the end chunk is yielded (lines 71-78)
SrReadDone ==
    /\ sr.pc = "reading"
    /\ SrPulled
    /\ up.state = "open"
    /\ up.delivered = up.total
    /\ up' = [up EXCEPT !.state = "ended"]
    /\ sr' = [Yield(Item("line", "end", 0, <<>>)) EXCEPT !.pc = "finished"]
    /\ UNCHANGED <<gpc, req, gcalls, backendReqs, gthrown, resp, conns, cache, cproc,
                   cqueue, crecv, cstate, orchVars, auxVars>>

\* reader.read() rejects with the value the body errored with; the catch block
\* (lines 89-94) reads error.message, which throws when that value is null or
\* undefined
SrReadError ==
    /\ sr.pc = "reading"
    /\ SrPulled
    /\ up.state = "open"
    /\ \E reason \in StreamErrors :
          /\ up' = [up EXCEPT !.state = "errored", !.reason = reason]
          /\ IF reason.kind = "nullish"
             THEN sr' = [sr EXCEPT !.pc = "threw"]
             ELSE sr' = [Yield(Item("line", "error", 0, reason.message)) EXCEPT
                             !.pc = "finished"]
    /\ UNCHANGED <<gpc, req, gcalls, backendReqs, gthrown, resp, conns, cache, cproc,
                   cqueue, crecv, cstate, orchVars, auxVars>>

\* createChunkedBody, lines 182-190: the next chunk is serialized as one line and
\* enqueued; the stream is closed after a terminal chunk
ChunkedEnqueue ==
    /\ cstate = "open"
    /\ sr.taken < Len(sr.chunks)
    /\ LET chunk == sr.chunks[sr.taken + 1]
       IN  /\ cqueue' = Append(cqueue, chunk)
           /\ cstate' = IF chunk.type \in TerminalTypes THEN "closed" ELSE "open"
    /\ sr' = [sr EXCEPT !.taken = @ + 1]
    /\ UNCHANGED <<gpc, req, gcalls, backendReqs, gthrown, resp, conns, cache, cproc,
                   up, crecv, orchVars, auxVars>>

\* createChunkedBody, lines 192-194: the iteration threw, the stream is errored
ChunkedFail ==
    /\ cstate = "open"
    /\ sr.pc = "threw"
    /\ SrPulled
    /\ cstate' = "errored"
    /\ cqueue' = <<>>
    /\ UNCHANGED <<gpc, req, gcalls, backendReqs, gthrown, resp, conns, cache, cproc,
                   up, crecv, sr, orchVars, auxVars>>

\* the longest chunk iterator handed to createChunkedBody directly
MaxChunks == 3

\* the chunk iterators a caller of createChunkedBody can pass: the types of the
\* chunks it yields, and whether it then returns or throws
ChunkTypeSeqs ==
    UNION {[1..n -> {"data", "end", "error"}] : n \in 0..MaxChunks}

\* createChunkedBody, lines 179-181: the stream is constructed over an
\* arbitrary finite iterator and start() begins to iterate it
ChunkedBegin ==
    /\ sr.pc = "idle"
    /\ gpc = "idle"
    /\ cstate = "none"
    /\ \E types \in ChunkTypeSeqs, ending \in {"finished", "threw"} :
          sr' = [pc |-> ending,
                 chunks |-> [i \in 1..Len(types) |->
                                Item("line", types[i],
                                     IF types[i] = "data" THEN i ELSE 0, <<>>)],
                 taken |-> 0]
    /\ cstate' = "open"
    /\ UNCHANGED <<gpc, req, gcalls, backendReqs, gthrown, resp, conns, cache, cproc,
                   up, cqueue, crecv, orchVars, auxVars>>

-----------------------------------------------------------------------------
(* Build monitor (build/monitor.ts, kept in examples/README.md:125-380) *)

MaxPolls == 3

\* phaseOrder of buildToBuildProgress
phaseOrder ==
    <<"SUBMITTED", "QUEUED", "PROVISIONING", "DOWNLOAD_SOURCE", "INSTALL",
      "PRE_BUILD", "BUILD", "POST_BUILD", "UPLOAD_ARTIFACTS", "FINALIZING",
      "COMPLETED">>

\* Array.prototype.indexOf: the 0-based position of x, -1 when absent
indexOf(list, x) ==
    IF \E i \in 1..Len(list) : list[i] = x
    THEN (CHOOSE i \in 1..Len(list) :
              list[i] = x /\ \A j \in 1..(i - 1) : list[j] /= x) - 1
    ELSE -1

\* the values of Build.currentPhase: a listed phase, a phase that is not
\* listed, or "" (undefined)
ReportedPhases == {phaseOrder[i] : i \in 1..Len(phaseOrder)} \cup {"", "UNLISTED"}

\* the Build objects a poll can return: currentPhase, buildComplete,
\* buildStatus, and whether the image variables are set in its environment
Builds ==
    [currentPhase : ReportedPhases, buildComplete : {FALSE},
     buildStatus : {"IN_PROGRESS"}, imageVars : {FALSE}]
    \cup [currentPhase : ReportedPhases, buildComplete : {TRUE},
          buildStatus : {"SUCCEEDED", "FAILED"}, imageVars : BOOLEAN]

\* build.currentPhase || 'SUBMITTED'
CurrentPhaseOf(build) ==
    IF build.currentPhase = "" THEN "SUBMITTED" ELSE build.currentPhase

\* buildToBuildProgress (README.md:261-289)
buildToBuildProgress(build) ==
    LET currentPhase == CurrentPhaseOf(build)
        currentIndex == indexOf(phaseOrder, currentPhase)
    IN  [phase |-> currentPhase,
         status |-> IF build.buildStatus = "" THEN "IN_PROGRESS"
                    ELSE build.buildStatus,
         percentage |-> IF currentIndex >= 0
                        THEN (currentIndex * 100) \div Len(phaseOrder)
                        ELSE 0]

\* buildToBuildResult (README.md:294-329)
buildToBuildResult(build) ==
    [success |-> build.buildStatus = "SUCCEEDED",
     imageUri |-> IF build.imageVars THEN {"img-1"} ELSE {},
     error |-> IF build.buildStatus = "SUCCEEDED" THEN {} ELSE {build.buildStatus}]

\* monitorBuild: position, `lastPhase`, the builds polled so far, the progress
\* records handed to onProgress, and the BuildResult returned
BmIdle == [pc |-> "idle", lastPhase |-> "", seen |-> <<>>, reports |-> <<>>,
           ret |-> {}]

\* monitorBuild is called (README.md:150-156)
BmStart ==
    /\ bm.pc = "idle"
    /\ bm' = [bm EXCEPT !.pc = "polling"]
    /\ UNCHANGED <<orchVars, gwVars, lib>>

\* one iteration of the loop of monitorBuild (README.md:157-190)
BmPoll ==
    /\ bm.pc = "polling"
    /\ Len(bm.seen) < MaxPolls
    /\ \E build \in Builds :
          LET currentPhase == CurrentPhaseOf(build)
              progress == buildToBuildProgress(build)
              onChange == IF currentPhase /= bm.lastPhase
                          THEN Append(bm.reports, progress) ELSE bm.reports
          IN  bm' = IF build.buildComplete
                    THEN [pc |-> "returned", lastPhase |-> currentPhase,
                          seen |-> Append(bm.seen, build),
                          reports |-> Append(onChange, progress),
                          ret |-> {buildToBuildResult(build)}]
                    ELSE [bm EXCEPT !.lastPhase = currentPhase,
                                    !.seen = Append(@, build),
                                    !.reports = onChange]
    /\ UNCHANGED <<orchVars, gwVars, lib>>

\* the poll returns no build (README.md:164-166)
BmPollNotFound ==
    /\ bm.pc = "polling"
    /\ Len(bm.seen) < MaxPolls
    /\ bm' = [bm EXCEPT !.pc = "threw"]
    /\ UNCHANGED <<orchVars, gwVars, lib>>

LibIdle == [fn |-> "none"]

\* no build is monitored and no library function has been called
BuildIdle == bm = BmIdle /\ lib = LibIdle

-----------------------------------------------------------------------------
(* Exported functions called directly, on arguments of any value *)

\* the Deployment records a caller can pass
AnyDeployments ==
    {MkDeployment("dep-x", st, "img-1", ep) :
        st \in Statuses, ep \in {{}, {MkEndpoint("dep-x", Region)}}}

\* verifyDeployment(deployment, region) with the outcomes of its two probes
CallVerifyDeployment ==
    /\ lib.fn = "none"
    /\ \E dep \in AnyDeployments, live \in BOOLEAN, acc \in BOOLEAN :
          lib' = [fn |-> "verifyDeployment", dep |-> dep, live |-> live, acc |-> acc,
                  out |-> verifyDeployment(dep, Region, live, acc)]
    /\ UNCHANGED <<orchVars, gwVars, bm>>

\* createEndpoint(deployment, region); an empty `out` is the thrown Error
CallCreateEndpoint ==
    /\ lib.fn = "none"
    /\ \E dep \in AnyDeployments :
          lib' = [fn |-> "createEndpoint", dep |-> dep,
                  out |-> createEndpoint(dep, Region)]
    /\ UNCHANGED <<orchVars, gwVars, bm>>

\* enum ErrorCategory
ErrorCategory ==
    {"CONFIG_ERROR", "BUILD_ERROR", "AUTH_ERROR", "DEPLOYMENT_ERROR", "RUNTIME_ERROR"}

\* the codes categorizeError assigns, and one code of another component
ErrorCodes ==
    {"TRANSMISSION_000", "TRANSMISSION_001", "TRANSMISSION_002",
     "TRANSMISSION_003", "TRANSMISSION_004", "BUILD_001"}

\* the CategorizedError values a caller can pass
CategorizedErrors ==
    {Categorized(category, code, message, details) :
        category \in ErrorCategory, code \in ErrorCodes,
        message \in {"Network connection error", "Transmission error"},
        details \in SampleMessages}

\* createErrorResponse(error)
CallCreateErrorResponse ==
    /\ lib.fn = "none"
    /\ \E error \in CategorizedErrors :
          lib' = [fn |-> "createErrorResponse", arg |-> error,
                  out |-> createErrorResponse(error)]
    /\ UNCHANGED <<orchVars, gwVars, bm>>

MaxWords == 3

\* words of error messages: one for each marker group, in mixed case, a second
\* one for the stream group (its marker inside a longer word), and one without
\* a marker
MessageWords == {"Connection", "EPIPE", "Forbidden", "Server", "upstream", "failed"}

ErrorMessages == SeqsUpTo(MessageWords, MaxWords)

\* categorizeError(new Error(message))
CallCategorizeError ==
    /\ lib.fn = "none"
    /\ \E message \in ErrorMessages :
          lib' = [fn |-> "categorizeError", arg |-> Thrown("Error", message),
                  out |-> categorizeError(Thrown("Error", message))]
    /\ UNCHANGED <<orchVars, gwVars, bm>>

-----------------------------------------------------------------------------
(* The build service's progress conversion (build service, part_005:181-196) *)

\* the most phases of one build that can carry phaseStatus SUCCEEDED: a build
\* goes through every phase of phaseOrder
MaxSucceeded == 11

\* const totalPhases = 5
totalPhases == 5

\* getBuildProgress returns buildToBuildProgress(build) of the build service:
\* the percentage is computed from `completedPhases`, the number of entries of
\* build.phases whose phaseStatus is SUCCEEDED
getBuildProgress(build, completedPhases) ==
    [phase |-> CurrentPhaseOf(build),
     status |-> IF build.buildStatus = "" THEN "IN_PROGRESS" ELSE build.buildStatus,
     percentage |-> (completedPhases * 100) \div totalPhases]

\* the same build converted by the build service and by the build monitor
CallGetBuildProgress ==
    /\ lib.fn = "none"
    /\ \E build \in Builds, completedPhases \in 0..MaxSucceeded :
          lib' = [fn |-> "getBuildProgress", build |-> build,
                  completedPhases |-> completedPhases,
                  out |-> getBuildProgress(build, completedPhases),
                  monitor |-> buildToBuildProgress(build)]
    /\ UNCHANGED <<orchVars, gwVars, bm>>

-----------------------------------------------------------------------------
(* The launch command run repeatedly against one stored configuration       *)
(* (cli/commands/launch.ts, auth/cognito.ts)                                 *)

\* how many times the launch command is run
MaxRuns == 2

\* an identifier of a pool or an app client: one read from the configuration
\* file, or the serial-th one created in Cognito
StoredId == [origin |-> "config", serial |-> 0]
CognitoId(serial) == [origin |-> "cognito", serial |-> serial]

\* setupCognitoAuth (cognito.ts:33-70) against a Cognito that holds `pools`
\* pools of the project's pool name and `clients` app clients. `listed` is
\* whether ListUserPools answered (findUserPoolByName returns null when it
\* throws, lines 92-95), `poolOk` and `clientOk` whether the two create calls
\* succeed. The result holds the state of Cognito afterwards and the
\* identifiers returned; `ids` is empty when the function threw.
setupCognitoAuth(pools, clients, listed, poolOk, clientOk) ==
    LET existingPool == listed /\ pools > 0
        poolThrew == ~existingPool /\ ~poolOk
        poolsAfter == IF existingPool \/ poolThrew THEN pools ELSE pools + 1
        userPoolId == IF existingPool THEN CognitoId(1) ELSE CognitoId(poolsAfter)
        clientThrew == poolThrew \/ ~clientOk
        clientsAfter == IF clientThrew THEN clients ELSE clients + 1
    IN  [pools |-> poolsAfter,
         clients |-> clientsAfter,
         ids |-> IF clientThrew THEN {}
                 ELSE {[pool |-> userPoolId, client |-> CognitoId(clientsAfter)]}]

\* launch.ts:58-66  the first run loads the stored configuration; its auth
\* section holds both identifiers or lacks them
RlStart ==
    /\ lib.fn = "none"
    /\ \E stored \in BOOLEAN :
          lib' = [fn |-> "launch", pc |-> "build", run |-> 1, stored |-> stored,
                  pools |-> 0, clients |-> 0, log |-> <<>>]
    /\ UNCHANGED <<orchVars, gwVars, bm>>

\* launch.ts:79-157  the build step of the current run succeeds or throws
RlBuild ==
    /\ lib.fn = "launch"
    /\ lib.pc = "build"
    /\ \E ok \in BOOLEAN :
          lib' = [lib EXCEPT !.pc = IF ok THEN "auth" ELSE "ended"]
    /\ UNCHANGED <<orchVars, gwVars, bm>>

\* launch.ts:159-202  the authentication step: the stored identifiers are
\* used when both are set, otherwise setupCognitoAuth runs and its result is
\* assigned to the configuration object in memory; the file is not written.
\* The log keeps, for each run that passed the step, the identifiers it used
\* and how many pools and app clients it created.
RlAuth ==
    /\ lib.fn = "launch"
    /\ lib.pc = "auth"
    /\ IF lib.stored
       THEN lib' = [lib EXCEPT !.pc = "ended",
                               !.log = Append(@, [run |-> lib.run,
                                                  pool |-> StoredId,
                                                  client |-> StoredId,
                                                  poolsCreated |-> 0,
                                                  clientsCreated |-> 0])]
       ELSE \E listed \in BOOLEAN, poolOk \in BOOLEAN, clientOk \in BOOLEAN :
               LET cognitoResult ==
                       setupCognitoAuth(lib.pools, lib.clients, listed, poolOk, clientOk)
               IN  lib' = [lib EXCEPT
                             !.pc = "ended",
                             !.pools = cognitoResult.pools,
                             !.clients = cognitoResult.clients,
                             !.log = IF cognitoResult.ids = {} THEN @
                                     ELSE LET ids == CHOOSE x \in cognitoResult.ids : TRUE
                                          IN  Append(@, [run |-> lib.run,
                                                         pool |-> ids.pool,
                                                         client |-> ids.client,
                                                         poolsCreated |->
                                                             cognitoResult.pools - lib.pools,
                                                         clientsCreated |->
                                                             cognitoResult.clients - lib.clients])]
    /\ UNCHANGED <<orchVars, gwVars, bm>>

\* the command is run again: loadConfig reads the same file
RlAgain ==
    /\ lib.fn = "launch"
    /\ lib.pc = "ended"
    /\ lib.run < MaxRuns
    /\ lib' = [lib EXCEPT !.pc = "build", !.run = @ + 1]
    /\ UNCHANGED <<orchVars, gwVars, bm>>

-----------------------------------------------------------------------------
(* The configure command (cli/commands/configure.ts, config/validation,      *)
(* config/persistence)                                                       *)

MaxParts == 2
MaxNameLen == 2

\* One whitespace-separated part of a command line: the text `name`, followed,
\* when `at` holds, by "@" and `version`.
Part(name, at, version) == [name |-> name, at |-> at, version |-> version]

Parts ==
    {Part(n, FALSE, "") : n \in {"uvx", "pkg"}}
    \cup {Part(n, TRUE, v) : n \in {"", "uvx", "pkg"}, v \in {"", "1"}}

\* the --server strings, split at whitespace; <<>> is a missing, empty or
\* blank string
ServerCommands == SeqsUpTo(Parts, MaxParts)

\* the --project-name strings, as sequences of characters
NameChars == {"a", "_", " ", "!"}
ProjectNames == SeqsUpTo(NameChars, MaxNameLen)

Transports == {"", "streamable-http", "stdio"}

\* VALID_AWS_REGIONS
VALID_AWS_REGIONS ==
    {"us-east-1", "us-east-2", "us-west-1", "us-west-2",
     "eu-west-1", "eu-west-2", "eu-west-3", "eu-central-1",
     "ap-northeast-1", "ap-northeast-2", "ap-southeast-1", "ap-southeast-2",
     "ap-south-1", "sa-east-1", "ca-central-1"}

RegionOptions == {"", "us-east-1", "mars-1"}

ConfigureOptions ==
    [server : ServerCommands, transport : Transports, region : RegionOptions,
     projectName : ProjectNames]

\* parseUvxCommand
parseUvxCommand(commandString) ==
    LET parts == commandString
        Threw(m) == [threw |-> TRUE, message |-> m]
    IN  IF parts = <<>> THEN Threw("Command string is empty")
        ELSE IF parts[1] /= Part("uvx", FALSE, "")
        THEN Threw("Expected command to start with uvx")
        ELSE IF Len(parts) < 2 THEN Threw("uvx command must include a package name")
        ELSE LET packagePart == parts[2]
             IN  IF packagePart.at /\ packagePart.name = ""
                 THEN Threw("Package name cannot be empty")
                 ELSE IF packagePart.at /\ packagePart.version = ""
                 THEN Threw("Version cannot be empty when @ is present")
                 ELSE [threw |-> FALSE, command |-> "uvx",
                       packageName |-> packagePart.name,
                       version |-> IF packagePart.at THEN {packagePart.version} ELSE {},
                       args |-> SubSeq(parts, 3, Len(parts))]

\* validateAwsRegion
validateAwsRegion(region) ==
    IF region = "" THEN << <<"AWS region is required">> >>
    ELSE IF region \notin VALID_AWS_REGIONS THEN << <<"Invalid AWS region ", region>> >>
    ELSE <<>>

\* projectName.trim() === ''
IsBlank(name) == \A i \in 1..Len(name) : name[i] = " "

\* /^[a-zA-Z0-9-_]+$/.test(projectName)
MatchesNamePattern(name) ==
    Len(name) >= 1 /\ \A i \in 1..Len(name) : name[i] \in {"a", "_"}

\* mutant: the transport is not validated
validateConfigureOptions_Mut(options) ==
    LET serverErrors ==
            IF options.server = <<>> THEN << <<"Server command is required">> >>
            ELSE LET p == parseUvxCommand(options.server)
                 IN  IF p.threw THEN << <<"Invalid server command: ", p.message>> >>
                     ELSE <<>>
        nameErrors ==
            IF IsBlank(options.projectName) THEN << <<"Project name is required">> >>
            ELSE IF ~MatchesNamePattern(options.projectName)
            THEN << <<"Project name must contain only alphanumeric characters, hyphens, and underscores">> >>
            ELSE <<>>
    IN  serverErrors \o validateAwsRegion(options.region) \o nameErrors

\* validateConfigureOptions: the list of errors; valid iff it is empty
validateConfigureOptions(options) ==
    LET serverErrors ==
            IF options.server = <<>> THEN << <<"Server command is required">> >>
            ELSE LET p == parseUvxCommand(options.server)
                 IN  IF p.threw THEN << <<"Invalid server command: ", p.message>> >>
                     ELSE <<>>
        transportErrors ==
            IF options.transport /= "streamable-http"
            THEN << <<"Transport must be streamable-http">> >> ELSE <<>>
        nameErrors ==
            IF IsBlank(options.projectName) THEN << <<"Project name is required">> >>
            ELSE IF ~MatchesNamePattern(options.projectName)
            THEN << <<"Project name must contain only alphanumeric characters, hyphens, and underscores">> >>
            ELSE <<>>
    IN  serverErrors \o transportErrors \o validateAwsRegion(options.region) \o nameErrors

\* buildConfigFromOptions
buildConfigFromOptions(options) ==
    LET uvxCommand == parseUvxCommand(options.server)
    IN  [version |-> "1.0",
         project |-> [name |-> options.projectName, region |-> options.region],
         server |-> [command |-> uvxCommand.command,
                     args |-> <<Part(uvxCommand.packageName, uvxCommand.version /= {},
                                     IF uvxCommand.version = {} THEN ""
                                     ELSE CHOOSE v \in uvxCommand.version : TRUE)>>
                              \o uvxCommand.args,
                     transport |-> "streamable-http", port |-> 8080],
         build |-> [codebuildProject |-> <<"agentcore-", options.projectName, "-builder">>,
                    ecrRepository |-> <<"agentcore/", options.projectName>>,
                    imageTag |-> "latest", buildTimeout |-> 30],
         auth |-> [cognitoRegion |-> options.region]]

\* what fs.writeFile can do: write the file, fail before touching it, or fail
\* after truncating it
SaveOutcomes == {"written", "denied", "truncated"}

\* the configuration file before the command runs: absent, or an earlier one
StoredConfigs ==
    {{}, {buildConfigFromOptions([server |-> <<Part("uvx", FALSE, ""), Part("pkg", FALSE, "")>>,
                                  transport |-> "streamable-http",
                                  region |-> "eu-west-1", projectName |-> <<"a">>])}}

\* executeConfigure(options, logger), with the file as it is afterwards and
\* the number of saveConfig calls
executeConfigure(options, stored, outcome) ==
    LET errors == validateConfigureOptions(options)
        built == buildConfigFromOptions(options)
    IN  IF errors /= <<>>
        THEN [result |-> [success |-> FALSE, config |-> {},
                          error |-> <<"Invalid configuration parameters:">> \o errors],
              file |-> stored, saves |-> 0]
        ELSE IF outcome = "written"
        THEN [result |-> [success |-> TRUE, config |-> {built}, error |-> <<>>],
              file |-> {built}, saves |-> 1]
        ELSE [result |-> [success |-> FALSE, config |-> {},
                          error |-> <<"Failed to save configuration: ", outcome>>],
              file |-> IF outcome = "denied" THEN stored ELSE {[version |-> ""]},
              saves |-> 1]

CallExecuteConfigure ==
    /\ lib.fn = "none"
    /\ \E options \in ConfigureOptions, stored \in StoredConfigs, outcome \in SaveOutcomes :
          LET r == executeConfigure(options, stored, outcome)
          IN  lib' = [fn |-> "executeConfigure", arg |-> options, before |-> stored,
                      out |-> r.result, file |-> r.file, saves |-> r.saves]
    /\ UNCHANGED <<orchVars, gwVars, bm>>

-----------------------------------------------------------------------------
(* StreamHandler.handleBackpressure (stream-handler.ts:145-169), called on a *)
(* reader and a writer whose operations can each succeed or fail             *)

MaxWrites == 2

Op(name, ok) == [name |-> name, ok |-> ok]

\* the call runs up to its first reader.read()
HbStart ==
    /\ lib.fn = "none"
    /\ lib' = [fn |-> "handleBackpressure", pc |-> "read", ops |-> <<>>,
               written |-> 0, caught |-> "", thrown |-> "",
               readerLocked |-> TRUE, writerLocked |-> TRUE]
    /\ UNCHANGED <<orchVars, gwVars, bm>>

\* line 151: await reader.read() yields a value, reports done, or rejects
HbRead ==
    /\ lib.fn = "handleBackpressure"
    /\ lib.pc = "read"
    /\ \/ /\ lib.written < MaxWrites
          /\ lib' = [lib EXCEPT !.pc = "ready", !.ops = Append(@, Op("read", TRUE))]
       \/ lib' = [lib EXCEPT !.pc = "close", !.ops = Append(@, Op("done", TRUE))]
       \/ lib' = [lib EXCEPT !.pc = "abort", !.caught = "read",
                             !.ops = Append(@, Op("read", FALSE))]
    /\ UNCHANGED <<orchVars, gwVars, bm>>

\* line 159: await writer.ready
HbReady ==
    /\ lib.fn = "handleBackpressure"
    /\ lib.pc = "ready"
    /\ \/ lib' = [lib EXCEPT !.pc = "write", !.ops = Append(@, Op("ready", TRUE))]
       \/ lib' = [lib EXCEPT !.pc = "abort", !.caught = "ready",
                             !.ops = Append(@, Op("ready", FALSE))]
    /\ UNCHANGED <<orchVars, gwVars, bm>>

\* line 160: await writer.write(value)
HbWrite ==
    /\ lib.fn = "handleBackpressure"
    /\ lib.pc = "write"
    /\ \/ lib' = [lib EXCEPT !.pc = "read", !.written = @ + 1,
                             !.ops = Append(@, Op("write", TRUE))]
       \/ lib' = [lib EXCEPT !.pc = "abort", !.caught = "write",
                             !.ops = Append(@, Op("write", FALSE))]
    /\ UNCHANGED <<orchVars, gwVars, bm>>

\* lines 153-156: await writer.close(), then leave the loop
HbClose ==
    /\ lib.fn = "handleBackpressure"
    /\ lib.pc = "close"
    /\ \/ lib' = [lib EXCEPT !.pc = "finally", !.ops = Append(@, Op("close", TRUE))]
       \/ lib' = [lib EXCEPT !.pc = "abort", !.caught = "close",
                             !.ops = Append(@, Op("close", FALSE))]
    /\ UNCHANGED <<orchVars, gwVars, bm>>

\* lines 162-164: await writer.abort(error); throw error.  When abort rejects,
\* its rejection leaves the catch block instead of the caught error.
HbAbort ==
    /\ lib.fn = "handleBackpressure"
    /\ lib.pc = "abort"
    /\ \/ lib' = [lib EXCEPT !.pc = "finally", !.thrown = lib.caught,
                             !.ops = Append(@, Op("abort", TRUE))]
       \/ lib' = [lib EXCEPT !.pc = "finally", !.thrown = "abort",
                             !.ops = Append(@, Op("abort", FALSE))]
    /\ UNCHANGED <<orchVars, gwVars, bm>>

\* lines 165-168: both locks are released and the call settles
HbFinally ==
    /\ lib.fn = "handleBackpressure"
    /\ lib.pc = "finally"
    /\ lib' = [lib EXCEPT !.pc = "settled", !.readerLocked = FALSE,
                          !.writerLocked = FALSE]
    /\ UNCHANGED <<orchVars, gwVars, bm>>

-----------------------------------------------------------------------------
(* Specification of the deployment workflow *)

NoCalls == [n \in {"build", "authSetup", "deploy", "verify", "save", "rollback",
                   "cleanup", "lookup", "restore"} |-> 0]

InitOrch ==
    /\ lpc = "start"
    /\ launchError = <<>>
    /\ opc = "idle"
    /\ config = [pool |-> "", client |-> "", hasAuth |-> TRUE, hasServer |-> TRUE]
    /\ imageUri = ""
    /\ deployment = {}
    /\ elapsed = 0
    /\ thrown = {}
    /\ result = {}
    /\ rb = RbIdle
    /\ history \in Histories
    /\ calls = NoCalls

\* no gateway request, connector call or stream exists
GwIdle ==
    /\ gpc = "idle"
    /\ req = {}
    /\ gcalls = NoGwCalls
    /\ backendReqs = <<>>
    /\ gthrown = {}
    /\ resp = {}
    /\ conns = <<>>
    /\ cache = [u \in Urls |-> 0]
    /\ cproc = [p \in Callers |-> CallerIdle]
    /\ up = UpNone
    /\ cqueue = <<>>
    /\ crecv = <<>>
    /\ cstate = "none"
    /\ sr = SrIdle

Init == InitOrch /\ GwIdle /\ BuildIdle

Next ==
    \/ LaunchLoad \/ LaunchBuild \/ LaunchAuth \/ LaunchCallOrchestrate \/ LaunchFinish
    \/ DirectOrchestrate \/ DirectRollback
    \/ OrchDeploy \/ OrchPoll \/ OrchWaitTimeout \/ OrchVerify \/ OrchSave
    \/ OrchCatch \/ OrchFinish
    \/ RbCleanup \/ RbLookup \/ RbRestore \/ RbRestoreFails

Spec == Init /\ [][Next]_vars

\* the event loop runs every timer that has expired and every continuation of
\* a settled promise, so an iteration of waitForDeployment's loop that can run
\* does run
SpecLive == Init /\ [][Next]_vars /\ WF_vars(OrchPoll) /\ WF_vars(OrchWaitTimeout)

-----------------------------------------------------------------------------
(* The workflow when steps fail in ways the source does not provide for: a   *)
(* Config object lacking a section (loadConfig, part_009:95, casts the parsed *)
(* JSON without validating it), and rejections of the remote steps that the  *)
(* source only simulates (cleanup, history lookup, history recording).       *)

\* orchestrateDeployment is called with a Config lacking `auth` or `server`
DirectOrchestrateMalformed ==
    /\ lpc = "start"
    /\ \E image \in ImageUris, pool \in PoolIds, client \in ClientIds,
          ha \in BOOLEAN, hs \in BOOLEAN :
          /\ ~(ha /\ hs)
          /\ imageUri' = image
          /\ config' = [pool |-> IF ha THEN pool ELSE "",
                        client |-> IF ha THEN client ELSE "",
                        hasAuth |-> ha, hasServer |-> hs]
    /\ lpc' = "direct"
    /\ opc' = "prepare"
    /\ UNCHANGED <<launchError, deployment, elapsed, thrown, result, rb, history, calls,
                   gwVars, auxVars>>

\* orchestrator.ts:51-67  reading config.auth or config.server throws a TypeError
OrchPrepareThrows ==
    /\ opc = "prepare"
    /\ ~(config.hasAuth /\ config.hasServer)
    /\ thrown' = {Err(MsgTypeError)}
    /\ opc' = "catch"
    /\ UNCHANGED <<lpc, launchError, config, imageUri, deployment, elapsed, result,
                   rb, history, calls,
                   gwVars, auxVars>>

\* orchestrator.ts:146-149  the handler reads config.auth again; the TypeError
\* leaves the catch block and the returned promise rejects
OrchCatchThrows ==
    /\ opc = "catch"
    /\ ~config.hasAuth
    /\ thrown' = {Err(MsgTypeError)}
    /\ opc' = "rejected"
    /\ UNCHANGED <<lpc, launchError, config, imageUri, deployment, elapsed, result,
                   rb, history, calls,
                   gwVars, auxVars>>

\* orchestrator.ts:107  saveDeploymentToHistory rejects; the handler takes over
OrchSaveThrows ==
    /\ opc = "save"
    /\ thrown' = {Err(<<"history store unavailable">>)}
    /\ opc' = "catch"
    /\ calls' = Bump(calls, "save")
    /\ UNCHANGED <<lpc, launchError, config, imageUri, deployment, elapsed, result,
                   rb, history,
                   gwVars, auxVars>>

\* rollback.ts:53-69  a cleanup step throws; the handler returns what was
\* collected so far
RbCleanupFails ==
    /\ rb.pc = "cleanup"
    /\ rb' = [rb EXCEPT !.pc = "lookup", !.cleaned = <<>>]
    /\ calls' = Bump(calls, "cleanup")
    /\ UNCHANGED <<lpc, launchError, opc, config, imageUri, deployment, elapsed,
                   thrown, result, history,
                   gwVars, auxVars>>

\* rollback.ts:119  the lookup rejects; it is awaited outside any try block, so
\* rollbackDeployment rejects
RbLookupRejects ==
    /\ rb.pc = "lookup"
    /\ rb' = [rb EXCEPT !.pc = "rejected"]
    /\ calls' = Bump(calls, "lookup")
    /\ UNCHANGED <<lpc, launchError, opc, config, imageUri, deployment, elapsed,
                   thrown, result, history,
                   gwVars, auxVars>>

\* orchestrator.ts:155  rollbackDeployment is awaited inside the catch block:
\* its rejection rejects orchestrateDeployment
OrchRollbackRejected ==
    /\ opc = "rollback"
    /\ rb.pc = "rejected"
    /\ thrown' = {Err(MsgLookup)}
    /\ opc' = "rejected"
    /\ UNCHANGED <<lpc, launchError, config, imageUri, deployment, elapsed, result,
                   rb, history, calls,
                   gwVars, auxVars>>

\* launch.ts:236-239  a rejection of orchestrateDeployment is rethrown
LaunchOrchRejected ==
    /\ lpc = "await"
    /\ opc = "rejected"
    /\ lpc' = "failed"
    /\ launchError' = Caught.message
    /\ UNCHANGED <<opc, config, imageUri, deployment, elapsed, thrown, result, rb,
                   history, calls,
                   gwVars, auxVars>>

NextFault ==
    \/ Next
    \/ DirectOrchestrateMalformed \/ OrchPrepareThrows \/ OrchCatchThrows
    \/ OrchSaveThrows \/ RbCleanupFails \/ RbLookupRejects \/ OrchRollbackRejected
    \/ LaunchOrchRejected

SpecFault == Init /\ [][NextFault]_vars

-----------------------------------------------------------------------------
(* Specifications of the gateway *)

\* no launch or deployment is in progress
OrchIdle ==
    /\ lpc = "start"
    /\ launchError = <<>>
    /\ opc = "idle"
    /\ config = [pool |-> "", client |-> "", hasAuth |-> TRUE, hasServer |-> TRUE]
    /\ imageUri = ""
    /\ deployment = {}
    /\ elapsed = 0
    /\ thrown = {}
    /\ result = {}
    /\ rb = RbIdle
    /\ history = <<>>
    /\ calls = NoCalls

\* one request served by handleRequest, or one call of withErrorHandling; the
\* connector is fresh or already holds a connection from an earlier request
InitGateway ==
    /\ OrchIdle
    /\ BuildIdle
    /\ gpc = "idle"
    /\ req = {}
    /\ gcalls = NoGwCalls
    /\ backendReqs = <<>>
    /\ gthrown = {}
    /\ resp = {}
    /\ \E warm \in BOOLEAN :
          IF warm
          THEN /\ conns = <<createConnection(McpServerUrl)>>
               /\ cache = [u \in Urls |-> IF u = McpServerUrl THEN 1 ELSE 0]
          ELSE /\ conns = <<>>
               /\ cache = [u \in Urls |-> 0]
    /\ cproc = [p \in Callers |-> CallerIdle]
    /\ up = UpNone
    /\ cqueue = <<>>
    /\ crecv = <<>>
    /\ cstate = "none"
    /\ sr = SrIdle

NextGateway ==
    \/ GwReceive \/ GwAuth \/ GwIdpAccepts \/ GwIdpRejects \/ GwForward
    \/ GwFetchFails \/ GwFetchReplies \/ WrapThrows \/ GwCaught
    \/ PipeData \/ PipeEnd \/ PipeError \/ ClientRead

SpecGateway == InitGateway /\ [][NextGateway]_vars

\* callers of connect on one connector, interleaved at the `await` of connect
NextConnect == \E p \in Callers : ConnBegin(p) \/ ConnStore(p)

InitConnect == OrchIdle /\ GwIdle /\ BuildIdle

SpecConnect == InitConnect /\ [][NextConnect]_vars

\* one call of streamResponse consumed by createChunkedBody and read by a client
NextStream ==
    \/ SrBegin \/ SrReadData \/ SrReadDone \/ SrReadError
    \/ ChunkedEnqueue \/ ChunkedFail \/ ClientRead

\* callers of connect and disconnect on one connector, and holders that close
\* their connection
InitCache == OrchIdle /\ GwIdle /\ BuildIdle

NextCache ==
    \/ \E p \in Callers : ConnBegin(p) \/ ConnStore(p) \/ DiscBegin(p) \/ DiscFinish(p)
    \/ ConnClose

SpecCache == InitCache /\ [][NextCache]_vars

InitStream == OrchIdle /\ GwIdle /\ BuildIdle

SpecStream == InitStream /\ [][NextStream]_vars

\* one call of createChunkedBody over an arbitrary finite iterator; start() is
\* an async function that the event loop runs until it returns
InitChunked == OrchIdle /\ GwIdle /\ BuildIdle

NextChunked == ChunkedBegin \/ ChunkedEnqueue \/ ChunkedFail \/ ClientRead

SpecChunked ==
    InitChunked /\ [][NextChunked]_vars
    /\ WF_vars(ChunkedEnqueue) /\ WF_vars(ChunkedFail)

\* one call of monitorBuild against a build whose reported phase is arbitrary
InitBuild == OrchIdle /\ GwIdle /\ BuildIdle

NextBuild == BmStart \/ BmPoll \/ BmPollNotFound

SpecBuild == InitBuild /\ [][NextBuild]_vars

\* one direct call of an exported function
InitLib == OrchIdle /\ GwIdle /\ BuildIdle

NextLib == CallVerifyDeployment \/ CallCreateEndpoint \/ CallCreateErrorResponse
           \/ CallExecuteConfigure \/ CallCategorizeError \/ CallGetBuildProgress
           \/ RlStart \/ RlBuild \/ RlAuth \/ RlAgain
           \/ HbStart \/ HbRead \/ HbReady \/ HbWrite \/ HbClose \/ HbAbort \/ HbFinally

SpecLib == InitLib /\ [][NextLib]_vars

-----------------------------------------------------------------------------
(* Properties of the deployment workflow *)

HasSuccessEntry == \E i \in 1..Len(history) : history[i].status = "success"

FailureResultWith(m) ==
    result = {[success |-> FALSE, endpoint |-> {}, authConfig |-> {},
               error |-> {[code |-> "DEPLOYMENT_FAILED", message |-> m,
                           phase |-> "DEPLOYING"]}]}

\* the messages of the failures of deploy submission, waiting and health
\* verification
StepFailureMessages ==
    {MsgPrereq(checkPrerequisites(i, p, c).missing) :
        i \in ImageUris, p \in PoolIds, c \in ClientIds}
    \cup {MsgInitFailed, MsgTimeout(generateDeploymentId(ProjectName))}
    \cup {MsgHealth(m) : m \in {"No endpoint URL available for health check",
                                "Service is healthy", "Health check failed"}}

BuildStepFailed == calls.build = 1 /\ imageUri = ""

C3_NeverRejects ==
    /\ opc /= "rejected"
    /\ (opc = "resolved" /\ thrown /= {}) => \E r \in result : ~r.success

\* C4: for a Deployment whose status is CREATING, ACTIVE or UPDATING,
\* rollbackDeployment returns success=false with no cleaned resources and no
\* restored version, and neither cleans up, nor looks up the history, nor
\* restores.
C4_NotFailedIsNoOp ==
    (rb.pc /= "idle" /\ TheDep(rb).status \in {"CREATING", "ACTIVE", "UPDATING"})
        => /\ rb.pc = "returned"
           /\ \E rr \in rb.ret :
                 /\ ~rr.success
                 /\ rr.cleanedResources = <<>>
                 /\ rr.restoredVersion = {}
           /\ calls.cleanup = 0 /\ calls.lookup = 0 /\ calls.restore = 0

\* rollbackDeployment has returned for an UPDATING deployment that has an endpoint
C4_Witness ==
    /\ rb.pc = "returned"
    /\ TheDep(rb).status = "UPDATING"
    /\ TheDep(rb).endpoint /= {}

\* C11: in a run in which the deployment is reported FAILED after its creation,
\* verifyDeployment is never invoked, and the run resolves to a result with
\* success=false whose error message is "Deployment failed during runtime
\* initialization".
C11_FailedSkipsVerification ==
    (deployment /= {} /\ Cur.status = "FAILED")
        => /\ calls.verify = 0
           /\ opc \in {"catch", "rollback", "resolved"}
           /\ opc = "resolved" => FailureResultWith(MsgInitFailed)

\* a run has resolved after the wait returned a FAILED deployment
C11_Witness ==
    /\ opc = "resolved"
    /\ deployment /= {}
    /\ Cur.status = "FAILED"
    /\ calls.deploy = 1
    /\ \E r \in result : ~r.success

\* the current phases of the builds monitorBuild has polled, in order
SeenPhases == [i \in 1..Len(bm.seen) |-> bm.seen[i].currentPhase]

\* the percentage strictly increases whenever two consecutive progress records
\* differ in phase
IncreasesAtTransitions ==
    \A i \in 1..(Len(bm.reports) - 1) :
        bm.reports[i].phase /= bm.reports[i + 1].phase
            => bm.reports[i].percentage < bm.reports[i + 1].percentage

\* C12: for a build polled in the phases SUBMITTED, BUILD and COMPLETED that
\* ends with status SUCCEEDED, the reported percentage strictly increases at
\* each phase transition and is 100 in every record for COMPLETED.
C12_ProgressReaches100 ==
    (bm.pc = "returned"
        /\ SeenPhases = <<"SUBMITTED", "BUILD", "COMPLETED">>
        /\ bm.seen[3].buildStatus = "SUCCEEDED")
        => /\ IncreasesAtTransitions
           /\ \A i \in 1..Len(bm.reports) :
                 bm.reports[i].phase = "COMPLETED" => bm.reports[i].percentage = 100

\* the cleaned-resource list names the deployment with identifier id
NamesDeployment(cleaned, id) ==
    \E i \in 1..Len(cleaned) : cleaned[i] = <<"Deployment ", id>>

\* C13: for a FAILED deployment of a project whose history has no SUCCESS entry,
\* rollbackDeployment looks the history up only after the cleanup and returns
\* success=true with no restoredVersion and a cleanedResources list that names
\* the failed deployment; nothing is restored.
C13_CleanupWithoutRestore ==
    (rb.pc /= "idle" /\ TheDep(rb).status = "FAILED" /\ ~HasSuccessEntry)
        => /\ calls.lookup <= calls.cleanup
           /\ calls.restore = 0
           /\ rb.pc = "returned" =>
                 /\ calls.cleanup = 1
                 /\ \E rr \in rb.ret :
                       /\ rr.success
                       /\ rr.restoredVersion = {}
                       /\ NamesDeployment(rr.cleanedResources, TheDep(rb).id)

\* rollbackDeployment has returned for a FAILED deployment of a project whose
\* history holds only failed entries
C13_Witness ==
    /\ rb.pc = "returned"
    /\ TheDep(rb).status = "FAILED"
    /\ history /= <<>>
    /\ ~HasSuccessEntry
    /\ \E rr \in rb.ret : rr.success /\ Len(rr.cleanedResources) = 2

\* the latest entry of the history with status SUCCESS
LastSuccess ==
    history[CHOOSE i \in 1..Len(history) :
                /\ history[i].status = "success"
                /\ \A j \in (i + 1)..Len(history) : history[j].status /= "success"]

\* C14: for a FAILED deployment of a project whose history has a SUCCESS entry,
\* rollbackDeployment either reports the restored deployment of the most recent
\* SUCCESS entry, or returns success=false with a message saying that
\* restoration failed; in both cases it reports the full cleaned list.
C14_RestoresLastSuccess ==
    (rb.pc = "returned" /\ TheDep(rb).status = "FAILED" /\ HasSuccessEntry)
        => \E rr \in rb.ret :
              /\ rr.cleanedResources = cleanupFailedDeployment(TheDep(rb).id)
              /\ calls.restore = 1
              /\ IF rr.success
                 THEN rr.restoredVersion = {RestoredId(LastSuccess.deploymentId)}
                 ELSE /\ rr.restoredVersion = {}
                      /\ rr.message[1] = "Cleanup completed but restoration failed: "

\* C15: for a deployment whose status is not ACTIVE, with or without an endpoint
\* attached, verifyDeployment does not return healthy=true and createEndpoint
\* throws.
C15_FailsClosed ==
    /\ (lib.fn = "verifyDeployment" /\ lib.dep.status /= "ACTIVE")
          => ~lib.out.healthy
    /\ (lib.fn = "createEndpoint" /\ lib.dep.status /= "ACTIVE")
          => lib.out = {}

EndpointIffActive(d) == (d.endpoint /= {}) <=> (d.status = "ACTIVE")

\* C16: every Deployment record of the workflow has an endpoint exactly when
\* its status is ACTIVE: the record of the run (returned by deployToRuntime,
\* then by the wait, then updated after verification), the record handed to
\* rollbackDeployment, and the record returned by restorePreviousVersion.
C16_EndpointIffActive ==
    /\ \A d \in deployment : EndpointIffActive(d)
    /\ \A d \in rb.dep : rb.caller = "orch" => EndpointIffActive(d)
    /\ \A d \in rb.restored : EndpointIffActive(d)

-----------------------------------------------------------------------------
(* Properties of the gateway *)

\* an Authorization value of the form "Bearer <token>": the scheme, one space,
\* and a token that is not empty and holds no space
WellFormedBearer(v) ==
    /\ Len(v) >= 3
    /\ v[1] = "Bearer"
    /\ v[2] = " "
    /\ \A i \in 3..Len(v) : v[i] /= " "

\* the request has no Authorization header, or one whose value is not
\* "Bearer <token>"
HeaderMissingOrMalformed(r) ==
    r.hdrName = "none" \/ ~WellFormedBearer(r.hdrValue)

\* C5: a request with no Authorization header, a scheme other than Bearer or a
\* malformed value is answered with status 401 and WWW-Authenticate: Bearer,
\* and at no time is forwardRequest called, a connection created or a request
\* sent to the backend for it.
C5_UnauthenticatedRejected ==
    (req /= {} /\ HeaderMissingOrMalformed(TheReq))
        => /\ gpc \in {"auth", "done"}
           /\ gcalls.forward = 0
           /\ gcalls.create = 0
           /\ backendReqs = <<>>
           /\ gpc = "done" =>
                 \E r \in resp : /\ r.status = 401
                                 /\ <<"WWW-Authenticate", "Bearer">> \in r.headers

\* handleRequest has answered a request that carries "Basic t"
C5_Witness ==
    /\ gpc = "done"
    /\ req /= {}
    /\ TheReq.hdrName = "Authorization"
    /\ TheReq.hdrValue = <<"Basic", " ", "t">>
    /\ \E r \in resp : r.status = 401

\* C6: when the identity provider accepted the token and the backend answered
\* with a success status, exactly one request went to the configured backend URL
\* carrying the request's JSON-RPC envelope, and the call resolves to a response
\* with the backend's status, marked Transfer-Encoding: chunked, whose body is
\* the backend's body.
C6_ForwardedOnce ==
    (req /= {} /\ Ok(up.status) /\ gpc \in {"done", "rejected"})
        => /\ Len(backendReqs) = 1
           /\ backendReqs[1].url = McpServerUrl
           /\ backendReqs[1].body = JSONstringify(parseMCPRequest(TheReq.body).value)
           /\ gpc = "done"
           /\ \E r \in resp : /\ r.status = up.status
                               /\ <<"Transfer-Encoding", "chunked">> \in r.headers
                               /\ r.kind = "stream"
           /\ \A i \in 1..Len(crecv) : crecv[i] = Item("raw", "", i, <<>>)

\* the connection objects created so far for a URL
CreatedFor(u) == {i \in 1..Len(conns) : conns[i].url = u}

\* C7: when callers of connect overlap on a URL for which no connection is
\* cached, only one connection object is created for that URL and every caller
\* that has returned holds that same object.
C7_OneConnectionPerUrl ==
    /\ \A u \in Urls : Cardinality(CreatedFor(u)) <= 1
    /\ \A p, q \in Callers :
          (cproc[p].pc = "returned" /\ cproc[q].pc = "returned"
              /\ cproc[p].url = cproc[q].url) => cproc[p].got = cproc[q].got

\* C8: once streamResponse has stopped, the chunks it yielded end with a
\* terminal chunk (end or error) and hold no other terminal chunk, whether the
\* body was absent, ended, or errored after any number of fragments.
C8_OneTerminalChunkLast ==
    sr.pc \in {"finished", "threw"}
        => /\ sr.pc = "finished"
           /\ sr.chunks /= <<>>
           /\ \A i \in 1..Len(sr.chunks) :
                 (sr.chunks[i].type \in TerminalTypes) <=> (i = Len(sr.chunks))

\* C9: when the backend's body has errored while a request is served, the
\* client-facing stream is closed, not errored, its last item is an error
\* chunk, and it carries no raw fragment of the unfinished document.
C9_UpstreamErrorBecomesErrorChunk ==
    (req /= {} /\ up.state = "errored")
        => /\ cstate = "closed"
           /\ \E i \in 1..Len(crecv \o cqueue) :
                 /\ i = Len(crecv \o cqueue)
                 /\ (crecv \o cqueue)[i].type = "error"
           /\ \A i \in 1..Len(crecv) : crecv[i].kind /= "raw"

\* C10: the promise returned by withErrorHandling never rejects, whatever the
\* wrapped operation throws.
C10_NeverRejects == gpc /= "rejected"

\* C17: once validateRequest has run, the token was extracted (and the identity
\* provider asked about it) exactly when the request has an Authorization
\* header, under any letter case of its name, whose value is "Bearer <token>";
\* the extracted token is the text after the space; in every other case the
\* request is answered with the one failure 'Missing or invalid Authorization
\* header' and the identity provider is not contacted.
C17_ExtractsBearerToken ==
    (req /= {} /\ gpc /= "auth")
        => LET r == TheReq
               accepted == r.hdrName /= "none" /\ WellFormedBearer(r.hdrValue)
           IN  /\ (gcalls.idp = 1) <=> accepted
               /\ accepted =>
                     extractToken(r) = {SubSeq(r.hdrValue, 3, Len(r.hdrValue))}
               /\ ~accepted =>
                     /\ gcalls.idp = 0
                     /\ resp = {createUnauthorizedResponse(MsgNoHeader)}

\* the cache holds, for each URL, no connection or one connection created for
\* that URL
OnePerUrl ==
    \A u \in Urls :
        /\ cache[u] \in 0..Len(conns)
        /\ cache[u] /= 0 => conns[cache[u]].url = u

\* caller p begins a call of connect in this step
ConnectCalled(p) ==
    /\ cproc'[p].n = cproc[p].n + 1
    /\ cproc'[p].op = "connect"

\* a call of connect reuses the cached connection when one is cached for its
\* URL and marked connected, and creates a connection otherwise; nothing else
\* creates a connection
LazyAndReused ==
    /\ \A p \in Callers :
          ConnectCalled(p) =>
              LET u == cproc'[p].url
              IN  IF cache[u] /= 0 /\ conns[cache[u]].connected
                  THEN /\ conns' = conns
                       /\ cproc'[p].pc = "returned"
                       /\ cproc'[p].got = cache[u]
                  ELSE conns' = Append(conns, [url |-> u, connected |-> TRUE])
    /\ Len(conns') > Len(conns) => \E p \in Callers : ConnectCalled(p)

\* C18: after any sequence of connect, close and disconnect operations the
\* connector holds at most one connection per URL; connect creates a
\* connection only when none is cached for the URL or the cached one is not
\* marked connected, and otherwise returns the cached connection itself.
C18_OnePerUrlLazyReuse == []OnePerUrl /\ [][LazyAndReused]_vars

\* a connection was closed and replaced in the cache by a new one, which a
\* later call of connect returned from the cache
C18_Witness ==
    \E u \in Urls, p \in Callers :
        /\ Len(conns) = 2
        /\ conns[1].url = u /\ ~conns[1].connected
        /\ cache[u] = 2 /\ conns[2].connected
        /\ cproc[p].op = "connect" /\ cproc[p].pc = "returned"
        /\ cproc[p].local = 0 /\ cproc[p].got = 2

\* C19: once the backend has answered a forwarded request, forwardRequest has
\* thrown an Error whose message carries the backend's status and reason phrase
\* if the status is not a success status (200-299), and has thrown nothing of
\* the kind otherwise: the response is passed on with the backend's status.
C19_UpstreamErrorOnNonSuccess ==
    (req /= {} /\ up.status /= 0)
        => IF up.status \in 200..299
           THEN /\ gthrown \in {{}, {Thrown("Error", MsgBodyNull)}}
                /\ gthrown = {} => resp = {createStreamingResponse(up.status)}
           ELSE /\ up.state = "none"
                /\ \E e \in gthrown :
                      /\ e.kind = "Error"
                      /\ Len(e.message) >= 5
                      /\ e.message[5] = StatusStr(up.status)
                      /\ SubSeq(e.message, 6, Len(e.message)) = StatusText(up.status)
                /\ \A r \in resp : r.kind = "error"

\* the backend answered 504 Gateway Timeout and the handler has answered
C19_Witness ==
    /\ gpc = "done"
    /\ up.status = 504
    /\ gthrown = {Thrown("Error", <<"MCP", "server", "returned", "error:", "504",
                                   "Gateway", "Timeout">>)}

\* C20: createErrorResponse answers an AUTH_ERROR with status 401, a
\* CONFIG_ERROR with 400, a RUNTIME_ERROR whose code is TRANSMISSION_001 (a
\* network error) with 503, and every other categorized error, the stream
\* error TRANSMISSION_002 included, with 500.
C20_StatusByCategory ==
    lib.fn = "createErrorResponse"
        => lib.out.status =
              (IF lib.arg.category = "AUTH_ERROR" THEN 401
               ELSE IF lib.arg.category = "CONFIG_ERROR" THEN 400
               ELSE IF /\ lib.arg.category = "RUNTIME_ERROR"
                       /\ lib.arg.code = "TRANSMISSION_001" THEN 503
               ELSE 500)

\* a configuration error was answered with 400
C20_Witness ==
    /\ lib.fn = "createErrorResponse"
    /\ lib.arg.category = "CONFIG_ERROR"
    /\ lib.out.status = 400

\* C20 as stated: apart from the network error (503) and the auth category
\* (401), every categorized error, of any category or code, is answered 500.
C20_EverythingElse500 ==
    lib.fn = "createErrorResponse"
        => lib.out.status =
              (IF lib.arg.category = "AUTH_ERROR" THEN 401
               ELSE IF /\ lib.arg.category = "RUNTIME_ERROR"
                       /\ lib.arg.code = "TRANSMISSION_001" THEN 503
               ELSE 500)

\* C21: every failure response the gateway returns, the 401 of a failed
\* authentication included, carries at least one suggestion.
C21_FailuresCarrySuggestions ==
    \A r \in resp : r.kind \in {"error", "unauthorized"} => Len(r.suggestions) >= 1

\* C22: waitForDeployment always terminates.  It leaves its polling loop either
\* by returning a Deployment whose status is ACTIVE or FAILED, or, once the
\* default timeout of 5 minutes has elapsed without a terminal status, by
\* throwing the timeout error; and a wait that has begun always ends.
WaitEnds ==
    (opc = "wait" /\ opc' /= "wait")
        => \/ /\ elapsed < DefaultTimeoutMs
              /\ \A d \in deployment' : d.status \in {"ACTIVE", "FAILED"}
              /\ thrown' /= {Err(MsgTimeout(Cur.id))}
           \/ /\ elapsed >= DefaultTimeoutMs
              /\ thrown' = {Err(MsgTimeout(Cur.id))}
              /\ opc' = "catch"

C22_WaitTerminates ==
    /\ [][WaitEnds]_vars
    /\ (opc = "wait") ~> (opc /= "wait")

\* the wait was abandoned after 5 minutes of polls without a terminal status
C22_Witness ==
    /\ opc = "catch"
    /\ deployment /= {}
    /\ Cur.status \notin {"ACTIVE", "FAILED"}
    /\ thrown = {Err(MsgTimeout(Cur.id))}

\* the parameter an entry of validateConfigureOptions' error list is about
ParamOf(e) ==
    CASE e[1] \in {"Server command is required", "Invalid server command: "} -> "server"
      [] e[1] = "Transport must be streamable-http" -> "transport"
      [] e[1] \in {"AWS region is required", "Invalid AWS region "} -> "region"
      [] OTHER -> "projectName"

\* the parameters of `o` that are missing or invalid
InvalidParams(o) ==
    {"server" : x \in {1} \ {IF /\ Len(o.server) >= 2
                                /\ o.server[1] = Part("uvx", FALSE, "")
                                /\ (o.server[2].at =>
                                      o.server[2].name /= "" /\ o.server[2].version /= "")
                             THEN 1 ELSE 0}}
    \cup {"transport" : x \in {1} \ {IF o.transport = "streamable-http" THEN 1 ELSE 0}}
    \cup {"region" : x \in {1} \ {IF o.region \in VALID_AWS_REGIONS THEN 1 ELSE 0}}
    \cup {"projectName" : x \in {1} \ {IF /\ o.projectName /= <<>>
                                          /\ \A i \in 1..Len(o.projectName) :
                                                o.projectName[i] \notin {" ", "!"}
                                       THEN 1 ELSE 0}}

\* C23: executeConfigure calls saveConfig exactly when every parameter is
\* valid.  When a parameter is missing or invalid it returns success=false
\* with an error that lists each invalid parameter once, and the stored
\* configuration is what it was; a file that changed was written for valid
\* parameters, and a successful write stores the configuration built from them.
C23_WritesIffValid ==
    lib.fn = "executeConfigure"
        => LET bad == InvalidParams(lib.arg)
               listed == Tail(lib.out.error)
           IN  /\ lib.saves = (IF bad = {} THEN 1 ELSE 0)
               /\ lib.file /= lib.before => bad = {}
               /\ bad /= {} =>
                     /\ lib.out.success = FALSE
                     /\ lib.out.error[1] = "Invalid configuration parameters:"
                     /\ {ParamOf(listed[i]) : i \in 1..Len(listed)} = bad
                     /\ Len(listed) = Cardinality(bad)
                     /\ lib.file = lib.before
               /\ lib.out.success =>
                     /\ bad = {}
                     /\ \E c \in lib.file :
                           /\ lib.out.config = {c}
                           /\ c.project.name = lib.arg.projectName
                           /\ c.project.region = lib.arg.region
                           /\ <<Part(c.server.command, FALSE, "")>> \o c.server.args
                                 = lib.arg.server

\* three parameters were rejected while a configuration file existed
C23_Witness ==
    /\ lib.fn = "executeConfigure"
    /\ lib.before /= {}
    /\ lib.file = lib.before
    /\ InvalidParams(lib.arg) = {"server", "region", "projectName"}
    /\ Len(lib.out.error) = 4

\* C24: the gateway reads the next fragment from the upstream body only while
\* the queue of the client-facing stream is below its high-water mark, so what
\* is buffered for a client that has stopped reading stays bounded.
ReadsOnlyBelowHighWaterMark ==
    up'.delivered > up.delivered => Len(cqueue) < TransformCapacity

C24_BackpressureReachesUpstream == [][ReadsOnlyBelowHighWaterMark]_vars

HbOps == IF lib.fn = "handleBackpressure" THEN lib.ops ELSE <<>>

Did(name, ok) == \E i \in 1..Len(HbOps) : HbOps[i] = Op(name, ok)

\* C25: handleBackpressure writes only after the writer was ready, closes the
\* writer exactly when the reader reported completion, aborts the writer and
\* rethrows the failure exactly when a read or a write failed, never both
\* closes and aborts successfully, and has released both locks when it settles.
C25_ClosesOrAbortsInLockstep ==
    /\ \A i \in 1..Len(HbOps) :
          HbOps[i].name = "write" => i > 1 /\ HbOps[i - 1] = Op("ready", TRUE)
    /\ ~(Did("close", TRUE) /\ Did("abort", TRUE))
    /\ (lib.fn = "handleBackpressure" /\ lib.pc = "settled") =>
          /\ (Did("close", TRUE) \/ Did("close", FALSE)) <=> Did("done", TRUE)
          /\ LET failed == Did("read", FALSE) \/ Did("ready", FALSE) \/ Did("write", FALSE)
             IN  /\ (Did("abort", TRUE) \/ Did("abort", FALSE)) <=> failed
                 /\ failed <=> lib.thrown \in {"read", "ready", "write"}
          /\ ~lib.readerLocked /\ ~lib.writerLocked

\* C26: when the orchestrator's rollback runs after deployToRuntime has
\* returned a deployment, the cleanup is applied to that deployment: the
\* cleaned-resource list names the identifier created in this run.
C26_CleanupTargetsSubmitted ==
    (rb.caller = "orch" /\ deployment /= {} /\ rb.cleaned /= <<>>)
        => NamesDeployment(rb.cleaned, Cur.id)

\* C27: a request whose token the identity provider accepted, and that then
\* fails because its body is not JSON or because the backend call fails for a
\* reason other than the backend's own 401, is not answered with status 401
\* nor with an authentication error code.
C27_NoAuthErrorAfterAcceptedToken ==
    (req /= {} /\ gthrown /= {} /\ up.status /= 401)
        => \A r \in resp : r.status /= 401 /\ r.code /= "TRANSMISSION_003"

\* C28: whenever a connection is removed from the cache it has been closed
\* (connected = false), under every interleaving of connect and disconnect.
RemovedIsClosed ==
    \A u \in Urls :
        (cache[u] /= 0 /\ cache'[u] = 0) => ~conns[cache[u]].connected

C28_RemovedConnectionsAreClosed == [][RemovedIsClosed]_vars

\* the marker groups in their order of priority, with the code of each
MarkerGroups ==
    << [markers |-> {"network", "connection", "timeout", "econnrefused"},
        code |-> "TRANSMISSION_001", category |-> "RUNTIME_ERROR"],
       [markers |-> {"stream", "pipe", "closed"},
        code |-> "TRANSMISSION_002", category |-> "RUNTIME_ERROR"],
       [markers |-> {"unauthorized", "forbidden", "token"},
        code |-> "TRANSMISSION_003", category |-> "AUTH_ERROR"],
       [markers |-> {"mcp", "server"},
        code |-> "TRANSMISSION_004", category |-> "RUNTIME_ERROR"] >>

\* the groups of which the message contains a marker
GroupsIn(msg) ==
    {g \in 1..Len(MarkerGroups) :
        \E i \in 1..Len(msg) : MarkersIn(msg[i]) \cap MarkerGroups[g].markers /= {}}

\* C29: categorizeError gives an error the code and category of the first
\* marker group, in the order network, stream, authentication, upstream server,
\* of which its text contains a marker, and the generic runtime code
\* TRANSMISSION_000 when it contains none.
C29_HighestPriorityGroupWins ==
    lib.fn = "categorizeError"
        => LET found == GroupsIn(lib.arg.message)
           IN  \E c \in lib.out :
                  /\ lib.out = {c}
                  /\ c.details = lib.arg.message
                  /\ IF found = {}
                     THEN c.code = "TRANSMISSION_000" /\ c.category = "RUNTIME_ERROR"
                     ELSE LET g == CHOOSE x \in found : \A y \in found : x <= y
                          IN  /\ c.code = MarkerGroups[g].code
                              /\ c.category = MarkerGroups[g].category

\* a message with an authentication marker, a stream marker and a server
\* marker was given the stream code
C29_Witness ==
    /\ lib.fn = "categorizeError"
    /\ GroupsIn(lib.arg.message) = {2, 3, 4}
    /\ \E c \in lib.out : c.code = "TRANSMISSION_002"

\* C30: verifyDeployment returns healthy=true exactly when the liveness probe
\* and the accessibility probe both pass; when the liveness probe fails (or
\* cannot run for want of an endpoint), no endpoint is created or returned
\* and the accessibility probe is not run.
C30_HealthyIffBothProbesPass ==
    lib.fn = "verifyDeployment"
        => LET alive == lib.dep.endpoint /= {} /\ lib.live
           IN  /\ lib.out.healthStatus.healthy <=> alive
               /\ lib.out.healthy <=> (alive /\ lib.acc)
               /\ lib.out.accessChecked <=> alive
               /\ ~alive => ~lib.out.created /\ lib.out.endpoint = {}

\* the service answered the liveness probe but its endpoint was not accessible
C30_Witness ==
    /\ lib.fn = "verifyDeployment"
    /\ lib.live
    /\ ~lib.acc
    /\ lib.out.accessChecked
    /\ ~lib.out.healthy

\* C31: for an ACTIVE deployment without an endpoint whose probes pass,
\* verifyDeployment constructs the endpoint and returns healthy=true with it;
\* for an ACTIVE deployment that has an endpoint and whose probes pass, it
\* returns that same endpoint.
C31_ConstructsOrReusesEndpoint ==
    (lib.fn = "verifyDeployment" /\ lib.dep.status = "ACTIVE" /\ lib.live /\ lib.acc)
        => /\ lib.out.healthy
           /\ lib.out.endpoint =
                 (IF lib.dep.endpoint = {} THEN {MkEndpoint(lib.dep.id, Region)}
                  ELSE lib.dep.endpoint)

\* the prerequisites the run lacks
MissingItems ==
    {label \in {"Container image URI", "Cognito User Pool ID", "Cognito Client ID"} :
        \/ label = "Container image URI" /\ imageUri = ""
        \/ label = "Cognito User Pool ID" /\ config.pool = ""
        \/ label = "Cognito Client ID" /\ config.client = ""}

\* C32: once deployToRuntime has been called, a deployment exists exactly when
\* no prerequisite is missing; otherwise the call has failed with the
\* precondition error, which names every missing item, each once, and no other,
\* and checkPrerequisites reports exactly those items and is not ready.
C32_ReportsEveryMissingItem ==
    (calls.deploy >= 1 /\ opc \in {"wait", "catch"})
        => LET pre == checkPrerequisites(imageUri, config.pool, config.client)
           IN  /\ pre.ready <=> MissingItems = {}
               /\ {pre.missing[i] : i \in 1..Len(pre.missing)} = MissingItems
               /\ Len(pre.missing) = Cardinality(MissingItems)
               /\ IF MissingItems = {}
                  THEN deployment /= {}
                  ELSE /\ deployment = {}
                       /\ \E e \in thrown :
                             /\ thrown = {e}
                             /\ e.isError
                             /\ e.message[1] = "Deployment prerequisites not met. Missing: "
                             /\ \A label \in MissingItems :
                                   Cardinality({i \in 1..Len(e.message) :
                                                   e.message[i] = label}) = 1
                             /\ \A i \in 2..Len(e.message) :
                                   e.message[i] \in MissingItems \cup {", "}

\* the deploy request was refused for want of the image and of the client id
C32_Witness ==
    /\ opc = "catch"
    /\ calls.deploy = 1
    /\ deployment = {}
    /\ thrown = {Err(<<"Deployment prerequisites not met. Missing: ",
                       "Container image URI", ", ", "Cognito Client ID">>)}

\* C33: when an orchestrator run has returned success=true, the history holds
\* exactly one entry for the deployment of the run, with status SUCCESS and the
\* deployed image; a run that returned success=false has left none.
C33_SuccessIsRecorded ==
    (opc = "resolved" /\ deployment /= {})
        => LET mine == {i \in 1..Len(history) : history[i].deploymentId = Cur.id}
           IN  IF \E r \in result : r.success
               THEN /\ Cardinality(mine) = 1
                    /\ \A i \in mine : /\ history[i].status = "success"
                                       /\ history[i].imageUri = Cur.imageUri
               ELSE mine = {}

\* the run was started by the launch command
LaunchRun == lpc \notin {"start", "direct"}

\* C34: in a launch run the steps happen in the order build, identity
\* provisioning or reuse, deploy request, wait, health verification, history
\* recording, each only after every earlier one succeeded: identity is
\* provisioned and the deployment requested only with a built image, the
\* request is made only with a pool id and a client id, verification runs only
\* on a deployment that became ACTIVE, and history is recorded only after a
\* verification that passed.
C34_StepsInOrder ==
    LaunchRun
        => /\ calls.authSetup <= calls.build
           /\ calls.save <= calls.verify
           /\ calls.verify <= calls.deploy
           /\ calls.deploy <= calls.build
           /\ (calls.authSetup >= 1 \/ opc /= "idle") => imageUri /= ""
           /\ opc /= "idle" => config.pool /= "" /\ config.client /= ""
           /\ calls.verify >= 1 => deployment /= {} /\ Cur.status = "ACTIVE"
           /\ calls.save >= 1 => thrown = {} /\ Cur.endpoint /= {}

\* a launch that built the image, provisioned identity and recorded the
\* deployment
C34_Witness ==
    /\ lpc = "done"
    /\ calls.build = 1
    /\ calls.authSetup = 1
    /\ calls.deploy = 1
    /\ calls.verify = 1
    /\ calls.save = 1

\* C35: the orchestrator invokes rollbackDeployment only in a run whose
\* deploy request was submitted: a run stopped by the prerequisite check
\* starts no rollback and cleans nothing up.
C35_RollbackOnlyAfterSubmit ==
    deployment = {} => rb.caller /= "orch"

\* a step taken by a stream that is already closed or errored: the stream
\* stays as it is and its queue does not grow
SettledStep ==
    cstate \in {"closed", "errored"}
        => (cstate' = cstate /\ Len(cqueue') <= Len(cqueue))

\* C36: for every finite chunk iterator given to createChunkedBody the
\* returned stream is eventually closed or errored, it leaves that state
\* never again, and nothing is enqueued once it is reached.
C36_ChunkedBodyTerminates ==
    /\ (cstate = "open") ~> (cstate \in {"closed", "errored"})
    /\ [][SettledStep]_vars
\* C37: every percentage produced for a build, by the build monitor's
\* conversion and by the build service's getBuildProgress, is an integer
\* between 0 and 100, whatever the current phase is and however many phases
\* have succeeded.
C37_PercentageWithinRange ==
    lib.fn = "getBuildProgress"
        => /\ lib.monitor.percentage \in 0..100
           /\ lib.out.percentage \in 0..100

\* the polls of monitorBuild whose phase differs from the phase of the poll
\* before; the first poll is compared with the initial lastPhase ''
PhaseChanges ==
    {i \in 1..Len(bm.seen) :
        CurrentPhaseOf(bm.seen[i])
            /= (IF i = 1 THEN "" ELSE CurrentPhaseOf(bm.seen[i - 1]))}

\* C38: during monitorBuild the progress callback has been invoked exactly
\* once per observed phase change, a phase that comes back after a different
\* one included; a poll in the same phase and the poll that finds the build
\* complete add no invocation.
C38_OneReportPerPhaseChange ==
    Len(bm.reports) = Cardinality(PhaseChanges)

\* a step of the run's deployment record: its identifier stays, and its status
\* either stays or goes from CREATING to ACTIVE or to FAILED
StatusStep ==
    (deployment /= {} /\ deployment' /= {})
        => /\ Cur'.id = Cur.id
           /\ \/ Cur'.status = Cur.status
              \/ Cur.status = "CREATING" /\ Cur'.status \in TerminalStatuses

\* what the run does with a deployment whose terminal status it has observed:
\* a FAILED one is never verified, saved or reported as a success, an ACTIVE one
\* is never reported as failed during initialization, and no record handed to
\* the rollback carries its identifier with another status
TerminalStatusRespected ==
    deployment /= {}
        => /\ Cur.status = "FAILED"
                => /\ calls.verify = 0
                   /\ calls.save = 0
                   /\ \A r \in result : ~r.success
           /\ Cur.status = "ACTIVE" => Err(MsgInitFailed) \notin thrown
           /\ \A d \in rb.dep : d.id = Cur.id => d.status = Cur.status

C40_IdentityProvisionedOnce ==
    lib.fn = "launch"
        => \A i \in 2..Len(lib.log) :
              /\ lib.log[i].poolsCreated = 0
              /\ lib.log[i].clientsCreated = 0
              /\ lib.log[i].pool = lib.log[1].pool
              /\ lib.log[i].client = lib.log[1].client

====
